---------------------------- MODULE Spec2Model ----------------------------
(***************************************************************************)
(* Tour-booking backend: the package seat inventory with its booking       *)
(* lifecycle (tour_packages, tour_bookings) and the travel-request         *)
(* lifecycle (requests, users).                                            *)
(*                                                                         *)
(* Every route handler is a sequence of database statements separated by   *)
(* `await`.  A handler invocation is a process p with a program counter    *)
(* pc[p] and its local variables call[p]; one action is one database       *)
(* statement together with the local JavaScript that follows it up to the  *)
(* next statement or the response.  A finished invocation rests at         *)
(* pc[p] = "done" with its response in res[p] until the response is        *)
(* delivered (Return).  The handlers use pool.query without BEGIN/COMMIT,   *)
(* so every statement commits on its own.                                  *)
(***************************************************************************)
EXTENDS Integers, Sequences, FiniteSets, TLC

(***************************************************************************)
(* Bounds of the model.                                                    *)
(***************************************************************************)
MaxPackages == 1
MaxSeats == 2
MaxBookings == 2
MaxTravelers == 1
MaxRequests == 1
MaxLogs == 2
MaxPrice == 2
MaxTitleLen == 4
MaxUsers == 2

Procs == {"p1", "p2"}
SeqProcs == {"p1"}
Customers == {"u1", "u2"}

\* seat counts an administrator may send: integers, not validated by the code
SeatVals == -1 .. (MaxSeats + 1)
\* num_travelers a client may send: 0 is falsy, negatives fail `< 1`
TravelerVals == -1 .. MaxTravelers
\* ids a client may send: those of the rows and one that matches no row
BookingInputIds == 1 .. (MaxBookings + 1)
PackageInputIds == 1 .. (MaxPackages + 1)

\* prices an administrator may send for a package
PriceVals == 1 .. MaxPrice
\* the price of the packages of the specifications that do not vary prices
DefaultPrice == 1

\* the characters of a title: a lower-case letter, an upper-case letter, a
\* digit, a space, a dash and a punctuation mark
Alphabet == {"a", "B", "1", " ", "-", "!"}
\* titles an administrator may send: one that is its own slug, one that
\* generateSlug rewrites, and the empty string
SampleTitles == {<<"a">>, <<"B", " ", "1", "!">>, << >>}

\* the model follows seats_available up to this value
SeatCeiling == MaxSeats + 1

VARIABLES tour_packages, tour_bookings, requests, active, activity_logs, ledger_up,
          catalog, pc, call, res

dbBook == <<tour_packages, tour_bookings>>
dbReq == <<requests, active>>
\* activity_logs is the ledger; ledger_up tells whether an INSERT into it succeeds;
\* catalog is the database's schema, which no request handler changes
dbLog == <<activity_logs, ledger_up, catalog>>
vars == <<tour_packages, tour_bookings, requests, active, activity_logs, ledger_up,
          catalog, pc, call, res>>

(***************************************************************************)
(* The database's schema.  A database is the set of its tables, the        *)
(* columns of them that a statement names, its indexes, the CHECK          *)
(* constraints on users.role (each the set of roles it admits) and the     *)
(* role of every row of users.  catalog holds the database, the state of   *)
(* the transaction a script runs in, and what ROLLBACK brings back.        *)
(***************************************************************************)
NEW_ROLES == {"user", "tour_guide", "admin"}
OLD_ROLES == {"user", "agent", "admin"}

EmptyDb == [tables |-> {}, columns |-> {}, indexes |-> {}, role_check |-> {}, user_roles |-> << >>]

NoStmt == [kind |-> "none", name |-> "none", table |-> "none", column |-> "none",
           refs |-> {}, cols |-> {}, roles |-> {}, to |-> "none"]
\* CREATE TABLE IF NOT EXISTS name (... REFERENCES refs ...)
CreateTable(name, refs, cols) == [NoStmt EXCEPT !.kind = "create_table", !.name = name, !.refs = refs, !.cols = cols]
\* CREATE INDEX IF NOT EXISTS name ON table(column)
CreateIndexIfNotExists(name, table, column) ==
    [NoStmt EXCEPT !.kind = "create_index_if_not_exists", !.name = name, !.table = table, !.column = column]
\* CREATE INDEX name ON table(column)
CreateIndex(name, table, column) ==
    [NoStmt EXCEPT !.kind = "create_index", !.name = name, !.table = table, !.column = column]
DropIndexIfExists(name) == [NoStmt EXCEPT !.kind = "drop_index_if_exists", !.name = name]
\* ALTER TABLE users DROP CONSTRAINT IF EXISTS users_role_check
DropRoleCheck == [NoStmt EXCEPT !.kind = "drop_role_check", !.table = "users"]
\* ALTER TABLE users ADD CONSTRAINT users_role_check CHECK (role IN roles)
AddRoleCheck(roles) == [NoStmt EXCEPT !.kind = "add_role_check", !.table = "users", !.roles = roles]
\* UPDATE users SET role = to WHERE role = 'agent'
UpdateUserRoles(to) == [NoStmt EXCEPT !.kind = "update_user_roles", !.table = "users", !.to = to]
\* UPDATE activity_logs SET actor_role = to WHERE actor_role = 'agent'
UpdateActorRoles(to) == [NoStmt EXCEPT !.kind = "update_actor_roles", !.table = "activity_logs", !.to = to]
\* ALTER TABLE table RENAME COLUMN column TO to
RenameColumn(table, column, to) ==
    [NoStmt EXCEPT !.kind = "rename_column", !.table = table, !.column = column, !.to = to]

\* the statements of initializeTables between BEGIN and COMMIT, in its order
InitializeStatements ==
    << CreateTable("users", {}, {"email", "role"}),
       CreateTable("destinations", {}, {"slug"}),
       CreateTable("requests", {"users", "packages"}, {"user_id", "status", "tour_guide_id", "package_id"}),
       CreateTable("packages", {}, {"destination", "active"}),
       CreateTable("payment_proofs", {"requests", "users"}, {"request_id", "user_id"}),
       CreateTable("activity_logs", {"users", "requests"}, {"actor_role", "request_id"}),
       CreateIndexIfNotExists("idx_users_email", "users", "email"),
       CreateIndexIfNotExists("idx_users_role", "users", "role"),
       CreateIndexIfNotExists("idx_requests_user_id", "requests", "user_id"),
       CreateIndexIfNotExists("idx_requests_agent_id", "requests", "agent_id"),
       CreateIndexIfNotExists("idx_requests_status", "requests", "status"),
       CreateIndexIfNotExists("idx_activity_logs_request_id", "activity_logs", "request_id"),
       CreateIndexIfNotExists("idx_destinations_slug", "destinations", "slug"),
       CreateIndexIfNotExists("idx_packages_destination", "packages", "destination"),
       CreateIndexIfNotExists("idx_packages_active", "packages", "active"),
       CreateIndexIfNotExists("idx_payment_proofs_request_id", "payment_proofs", "request_id"),
       CreateIndexIfNotExists("idx_payment_proofs_user_id", "payment_proofs", "user_id"),
       CreateIndexIfNotExists("idx_requests_tour_guide_id", "requests", "tour_guide_id") >>

\* the statements of migrateAgentToTourGuide between BEGIN and COMMIT, in its order
MigrationStatements ==
    << DropRoleCheck,
       AddRoleCheck(NEW_ROLES),
       UpdateUserRoles("tour_guide"),
       UpdateActorRoles("tour_guide"),
       RenameColumn("requests", "agent_id", "tour_guide_id"),
       DropIndexIfExists("idx_requests_agent_id"),
       CreateIndex("idx_requests_tour_guide_id", "requests", "tour_guide_id") >>

Relabelled(roles, to) == [i \in DOMAIN roles |-> IF roles[i] = "agent" THEN to ELSE roles[i]]
RolesAdmitted(db, roles) == \A i \in DOMAIN roles : \A check \in db.role_check : roles[i] \in check

\* whether PostgreSQL executes the statement on the database, or raises an error
StmtSucceeds(db, st) ==
    CASE st.kind = "create_table" ->
            st.name \in db.tables \/ st.refs \subseteq (db.tables \cup {st.name})
      [] st.kind = "create_index_if_not_exists" ->
            st.name \in db.indexes \/ <<st.table, st.column>> \in db.columns
      [] st.kind = "create_index" ->
            st.name \notin db.indexes /\ <<st.table, st.column>> \in db.columns
      [] st.kind = "drop_index_if_exists" -> TRUE
      [] st.kind = "drop_role_check" -> st.table \in db.tables
      [] st.kind = "add_role_check" ->
            /\ st.table \in db.tables
            /\ db.role_check = {}
            /\ \A i \in DOMAIN db.user_roles : db.user_roles[i] \in st.roles
      [] st.kind = "update_user_roles" ->
            st.table \in db.tables /\ RolesAdmitted(db, Relabelled(db.user_roles, st.to))
      [] st.kind = "update_actor_roles" -> st.table \in db.tables
      [] st.kind = "rename_column" ->
            <<st.table, st.column>> \in db.columns /\ <<st.table, st.to>> \notin db.columns
      [] OTHER -> FALSE

\* the database after a statement that succeeded
StmtResult(db, st) ==
    CASE st.kind = "create_table" /\ st.name \notin db.tables ->
            [db EXCEPT !.tables = @ \cup {st.name},
                       !.columns = @ \cup {<<st.name, c>> : c \in st.cols},
                       !.role_check = IF st.name = "users" THEN {NEW_ROLES} ELSE @]
      [] st.kind \in {"create_index_if_not_exists", "create_index"} ->
            [db EXCEPT !.indexes = @ \cup {st.name}]
      [] st.kind = "drop_index_if_exists" -> [db EXCEPT !.indexes = @ \ {st.name}]
      [] st.kind = "drop_role_check" -> [db EXCEPT !.role_check = {}]
      [] st.kind = "add_role_check" -> [db EXCEPT !.role_check = {st.roles}]
      [] st.kind = "update_user_roles" -> [db EXCEPT !.user_roles = Relabelled(@, st.to)]
      [] st.kind = "rename_column" ->
            [db EXCEPT !.columns = (@ \ {<<st.table, st.column>>}) \cup {<<st.table, st.to>>}]
      [] OTHER -> db

\* the activity_logs rows after a statement that succeeded
StmtLogs(logs, st) ==
    IF st.kind = "update_actor_roles"
    THEN [i \in DOMAIN logs |-> [logs[i] EXCEPT !.actor_role = IF @ = "agent" THEN st.to ELSE @]]
    ELSE logs

\* the schema the request handlers run against
InstalledDb == [tables |-> {InitializeStatements[k].name : k \in 1 .. 6},
                columns |-> UNION {{<<InitializeStatements[k].name, c>> : c \in InitializeStatements[k].cols} : k \in 1 .. 6},
                indexes |-> {InitializeStatements[k].name : k \in 7 .. Len(InitializeStatements)},
                role_check |-> {NEW_ROLES},
                user_roles |-> << >>]
Installed == [db |-> InstalledDb, txn |-> "none", begun_db |-> InstalledDb, begun_logs |-> << >>]

BOOKING_STATUSES == {"pending", "confirmed", "cancelled", "completed"}

\* a field of a request body: {} when the field is not supplied (undefined),
\* {v} when it is supplied with value v
NoFields == [seats_available |-> {}, seats_total |-> {}, active |-> {},
             title |-> {}, price |-> {}, featured |-> {}]
NoCall == [op |-> "none", user |-> "none", id |-> 0, n |-> 0, row |-> 0, arg |-> "none", seen |-> "none", total |-> 0, body |-> NoFields]
NoRes == [code |-> 0, err |-> "none", names |-> "none"]

PkgIds == 1 .. Len(tour_packages)
BookingIds == 1 .. Len(tour_bookings)
\* a row is there when it was inserted and not deleted since (ids are SERIAL)
PkgExists(pid) == pid \in PkgIds /\ tour_packages[pid].present
BookingExists(bid) == bid \in BookingIds /\ tour_bookings[bid].present

DeletedPackage == [present |-> FALSE, active |-> FALSE, seats_available |-> 0, seats_total |-> 0,
                   title |-> << >>, slug |-> << >>, price |-> 0, featured |-> FALSE]
DeletedBooking == [present |-> FALSE, package_id |-> 0, user_id |-> "none", num_travelers |-> 0, total_price |-> 0, status |-> "cancelled"]

\* no handler is between two of its statements
Quiet == \A p \in Procs : pc[p] \in {"idle", "done"}

\* requests that have passed their checks and are about to INSERT a booking
Inserting == {p \in Procs : pc[p] \in {"bk_insert", "ubk_insert"}}

\* the model's tour_bookings table holds at most MaxBookings rows
RoomForBooking == Len(tour_bookings) + Cardinality(Inserting) < MaxBookings

\* res.status(code).json(...): the handler ends; what it was called with stays
\* readable beside the response, `names` being the status an error message names
RespondNaming(p, op, id, code, err, status) ==
    /\ pc' = [pc EXCEPT ![p] = "done"]
    /\ call' = [call EXCEPT ![p] = [NoCall EXCEPT !.op = op, !.id = id]]
    /\ res' = [res EXCEPT ![p] = [code |-> code, err |-> err, names |-> status]]
    /\ UNCHANGED dbLog

Respond(p, op, id, code, err) == RespondNaming(p, op, id, code, err, "none")

\* the same for a call that got past its validation: the guide or status it
\* was called with stays readable too
RespondKeeping(p, code, err, status) ==
    /\ pc' = [pc EXCEPT ![p] = "done"]
    /\ call' = [call EXCEPT ![p] = [NoCall EXCEPT !.op = call[p].op, !.id = call[p].id, !.arg = call[p].arg]]
    /\ res' = [res EXCEPT ![p] = [code |-> code, err |-> err, names |-> status]]
    /\ UNCHANGED dbLog

\* the response is delivered and the next call may arrive
Return(p) ==
    /\ pc[p] = "done"
    /\ pc' = [pc EXCEPT ![p] = "idle"]
    /\ call' = [call EXCEPT ![p] = NoCall]
    /\ res' = [res EXCEPT ![p] = NoRes]
    /\ UNCHANGED <<tour_packages, tour_bookings, requests, active, dbLog>>

Goto(p, label, locals) ==
    /\ pc' = [pc EXCEPT ![p] = label]
    /\ call' = [call EXCEPT ![p] = locals]
    /\ UNCHANGED <<res, dbLog>>

(***************************************************************************)
(* The activity ledger.  logActivity issues INSERT INTO activity_logs and  *)
(* swallows a failure of it (try/catch in the request routes, an ignored   *)
(* callback in the booking and package routes).  No handler reads the      *)
(* ledger, so the insert is taken together with the statement it follows.  *)
(* A record keeps actor_role, action, the request or entity the record is  *)
(* about, from_status and to_status.                                       *)
(***************************************************************************)
LogRecord(role, action, ref, from, to) ==
    [actor_role |-> role, action |-> action, ref |-> ref, from_status |-> from, to_status |-> to]

\* an insert that writes over the newest record
LogActivity_Overwrite(rec) ==
    /\ activity_logs' = IF ~ledger_up THEN activity_logs
                        ELSE IF activity_logs = << >> THEN <<rec>>
                        ELSE [activity_logs EXCEPT ![Len(activity_logs)] = rec]
    /\ UNCHANGED <<ledger_up, catalog>>

\* INSERT INTO activity_logs (...) VALUES (...), its failure swallowed
LogActivity(rec) ==
    /\ activity_logs' = IF ledger_up THEN Append(activity_logs, rec) ELSE activity_logs
    /\ UNCHANGED <<ledger_up, catalog>>

\* a handler that answers 500 when its log insert fails
RespondLogged_Propagating(p, op, id, code, rec) ==
    /\ pc' = [pc EXCEPT ![p] = "done"]
    /\ call' = [call EXCEPT ![p] = [NoCall EXCEPT !.op = op, !.id = id]]
    /\ res' = [res EXCEPT ![p] = IF ledger_up
                                 THEN [code |-> code, err |-> "none", names |-> "none"]
                                 ELSE [code |-> 500, err |-> "failed", names |-> "none"]]
    /\ LogActivity(rec)

\* logActivity(...), then res.status(code).json(...)
RespondLogged(p, op, id, code, rec) ==
    /\ pc' = [pc EXCEPT ![p] = "done"]
    /\ call' = [call EXCEPT ![p] = [NoCall EXCEPT !.op = op, !.id = id]]
    /\ res' = [res EXCEPT ![p] = [code |-> code, err |-> "none", names |-> "none"]]
    /\ LogActivity(rec)

\* the same, the guide or status of the call staying readable
RespondKeepingLogged(p, code, rec) ==
    /\ pc' = [pc EXCEPT ![p] = "done"]
    /\ call' = [call EXCEPT ![p] = [NoCall EXCEPT !.op = call[p].op, !.id = call[p].id, !.arg = call[p].arg]]
    /\ res' = [res EXCEPT ![p] = [code |-> code, err |-> "none", names |-> "none"]]
    /\ LogActivity(rec)

Guides == {"g1", "g2"}
Null == "null"

Init ==
    /\ tour_packages = << >>
    /\ tour_bookings = << >>
    /\ requests = << >>
    /\ active = [g \in Guides |-> TRUE]
    /\ activity_logs = << >>
    /\ ledger_up = FALSE
    /\ catalog = Installed
    /\ pc = [p \in Procs |-> "idle"]
    /\ call = [p \in Procs |-> NoCall]
    /\ res = [p \in Procs |-> NoRes]

(***************************************************************************)
(* POST /packages: the new package starts with every seat available.       *)
(***************************************************************************)
\* title.toLowerCase(), on the characters of Alphabet
LowerChar(c) == IF c = "B" THEN "b" ELSE c

IsSlugChar(c) == c \in {"a", "b", "1"}

\* a replacement without the +: every other character becomes a dash
DashRuns_EachChar(t) == [i \in DOMAIN t |-> IF IsSlugChar(t[i]) THEN t[i] ELSE "-"]

\* .replace(/[^a-z0-9]+/g, '-'): every run of other characters becomes one dash
RECURSIVE DashRuns(_)
DashRuns(t) ==
    IF t = << >> THEN << >>
    ELSE IF IsSlugChar(Head(t)) THEN <<Head(t)>> \o DashRuns(Tail(t))
    ELSE IF Tail(t) # << >> /\ ~IsSlugChar(Head(Tail(t))) THEN DashRuns(Tail(t))
    ELSE <<"-">> \o DashRuns(Tail(t))

\* .replace(/^-|-$/g, ''): a dash at the start and a dash at the end go
TrimDashes(t) ==
    LET noHead == IF t # << >> /\ Head(t) = "-" THEN Tail(t) ELSE t
    IN  IF noHead # << >> /\ noHead[Len(noHead)] = "-"
        THEN SubSeq(noHead, 1, Len(noHead) - 1)
        ELSE noHead

generateSlug(title) == TrimDashes(DashRuns([i \in DOMAIN title |-> LowerChar(title[i])]))

\* slug VARCHAR(255) NOT NULL UNIQUE: another package already has this slug
SlugTaken(slug, pid) ==
    \E q \in PkgIds : q # pid /\ tour_packages[q].present /\ tour_packages[q].slug = slug

\* the INSERT of POST /packages; a request without title, price or seats_total
\* and one whose slug is taken are answered 400 and insert nothing
InsertPackage(title, price, seats_total, featured) ==
    /\ Len(tour_packages) < MaxPackages
    /\ title # << >>
    /\ price # 0
    /\ seats_total # 0
    /\ ~SlugTaken(generateSlug(title), 0)
    /\ tour_packages' = Append(tour_packages,
          [present |-> TRUE, active |-> TRUE,
           seats_available |-> seats_total, seats_total |-> seats_total,
           title |-> title, slug |-> generateSlug(title), price |-> price,
           featured |-> featured])
    /\ LogActivity(LogRecord("admin", "create_package", Len(tour_packages) + 1, "null", "null"))
    /\ UNCHANGED <<tour_bookings, dbReq, pc, call, res>>

\* the title given to the k-th package where titles are not varied
NthTitle(k) == [i \in 1 .. k |-> "a"]

\* POST /packages with only seats_total varied
PostPackages(seats_total) ==
    InsertPackage(NthTitle(Len(tour_packages) + 1), DefaultPrice, seats_total, FALSE)

(***************************************************************************)
(* POST /bookings                                                          *)
(***************************************************************************)
SeatsAfterBooking(seats, n) == seats - n

\* a check that lets every booking through
HasAvailability_Always(pkg, n) == TRUE

\* pkg.seats_available < num_travelers rejects
HasAvailability(pkg, n) == ~(pkg.seats_available < n)

\* a total that forgets the price
TotalPrice_Headcount(price, n) == n

\* const total_price = pkg.price * num_travelers
TotalPrice(price, n) == price * n

NewBooking(pid, u, n, total) ==
    [present |-> TRUE, package_id |-> pid, user_id |-> u, num_travelers |-> n,
     total_price |-> total, status |-> "pending"]

\* validation, then SELECT ... FROM tour_packages WHERE id = $1 and the checks on it
PostBookings_Check(p, u, pid, n) ==
    /\ pc[p] = "idle"
    /\ UNCHANGED <<dbBook, dbReq>>
    /\ IF n = 0 THEN Respond(p, "create_booking", pid, 400, "missing_fields")
       ELSE IF n < 1 THEN Respond(p, "create_booking", pid, 400, "travelers_lt_1")
       ELSE IF ~PkgExists(pid) THEN Respond(p, "create_booking", pid, 404, "package_not_found")
       ELSE IF ~tour_packages[pid].active THEN Respond(p, "create_booking", pid, 400, "package_inactive")
       ELSE IF ~HasAvailability(tour_packages[pid], n)
            THEN RespondNaming(p, "create_booking", pid, 400, "only_n_seats",
                               ToString(tour_packages[pid].seats_available))
       ELSE /\ RoomForBooking
            /\ Goto(p, "bk_insert", [NoCall EXCEPT !.op = "create_booking", !.user = u, !.id = pid, !.n = n,
                                             !.total = TotalPrice(tour_packages[pid].price, n)])

\* INSERT INTO tour_bookings (...) VALUES (..., 'pending', ...) RETURNING id
\* (the foreign key rejects the insert when the package row is gone)
PostBookings_Insert(p) ==
    /\ pc[p] = "bk_insert"
    /\ UNCHANGED <<tour_packages, dbReq>>
    /\ IF PkgExists(call[p].id)
       THEN /\ tour_bookings' = Append(tour_bookings, NewBooking(call[p].id, call[p].user, call[p].n, call[p].total))
            /\ Goto(p, "bk_seats", [call[p] EXCEPT !.row = Len(tour_bookings) + 1])
       ELSE /\ UNCHANGED tour_bookings
            /\ Respond(p, "create_booking", call[p].id, 500, "failed")

\* UPDATE tour_packages SET seats_available = seats_available - $1 WHERE id = $2
PostBookings_Seats(p) ==
    /\ pc[p] = "bk_seats"
    /\ tour_packages' =
          IF PkgExists(call[p].id)
          THEN [tour_packages EXCEPT ![call[p].id].seats_available =
                    SeatsAfterBooking(@, call[p].n)]
          ELSE tour_packages
    /\ UNCHANGED <<tour_bookings, dbReq>>
    /\ RespondLogged(p, "create_booking", call[p].id, 201,
                     LogRecord("user", "create_booking", call[p].id, "null", "null"))

(***************************************************************************)
(* POST /user/bookings: the second booking flow.  Its SELECT filters on    *)
(* active = true, so an inactive package is reported as not found.         *)
(***************************************************************************)
PostUserBookings_Check(p, u, pid, n) ==
    /\ pc[p] = "idle"
    /\ UNCHANGED <<dbBook, dbReq>>
    /\ IF n = 0 THEN Respond(p, "create_booking", pid, 400, "missing_fields")
       ELSE IF n < 1 THEN Respond(p, "create_booking", pid, 400, "travelers_lt_1")
       ELSE IF ~(PkgExists(pid) /\ tour_packages[pid].active)
            THEN Respond(p, "create_booking", pid, 404, "package_not_found")
       ELSE IF ~HasAvailability(tour_packages[pid], n)
            THEN RespondNaming(p, "create_booking", pid, 400, "only_n_seats",
                               ToString(tour_packages[pid].seats_available))
       ELSE /\ RoomForBooking
            /\ Goto(p, "ubk_insert", [NoCall EXCEPT !.op = "create_booking", !.user = u, !.id = pid, !.n = n,
                                              !.total = TotalPrice(tour_packages[pid].price, n)])

PostUserBookings_Insert(p) ==
    /\ pc[p] = "ubk_insert"
    /\ UNCHANGED <<tour_packages, dbReq>>
    /\ IF PkgExists(call[p].id)
       THEN /\ tour_bookings' = Append(tour_bookings, NewBooking(call[p].id, call[p].user, call[p].n, call[p].total))
            /\ Goto(p, "ubk_seats", [call[p] EXCEPT !.row = Len(tour_bookings) + 1])
       ELSE /\ UNCHANGED tour_bookings
            /\ Respond(p, "create_booking", call[p].id, 500, "failed")

PostUserBookings_Seats(p) ==
    /\ pc[p] = "ubk_seats"
    /\ tour_packages' =
          IF PkgExists(call[p].id)
          THEN [tour_packages EXCEPT ![call[p].id].seats_available =
                    SeatsAfterBooking(@, call[p].n)]
          ELSE tour_packages
    /\ UNCHANGED <<tour_bookings, dbReq>>
    /\ Respond(p, "create_booking", call[p].id, 201, "none")

(***************************************************************************)
(* PATCH /bookings/:id/cancel: only a pending booking is cancellable.      *)
(* The handler keeps the row it read (num_travelers, package_id) and uses  *)
(* it for the seat update.                                                 *)
(***************************************************************************)
\* the seats of a cancelled booking are not given back
SeatsAfterCancel_Kept(seats, n) == seats

SeatsAfterCancel(seats, n) == seats + n

\* the model explores a cancellation only while the package's counter is within
\* the range it follows
SeatsInRange(pid) == PkgExists(pid) => tour_packages[pid].seats_available <= SeatCeiling

\* a cancelled booking passes the status check again
CancellableA_Again(status) == status \in {"pending", "cancelled"}

CancellableA(status) == status = "pending"

\* UPDATE tour_bookings SET status = 'cancelled' WHERE id = $2
SetBookingStatus(bid, status) ==
    IF BookingExists(bid)
    THEN [tour_bookings EXCEPT ![bid].status = status]
    ELSE tour_bookings

\* UPDATE tour_packages SET seats_available = seats_available + $1 WHERE id = $2
ReturnSeats(pid, n) ==
    IF PkgExists(pid)
    THEN [tour_packages EXCEPT ![pid].seats_available = SeatsAfterCancel(@, n)]
    ELSE tour_packages

\* SELECT ... FROM tour_bookings WHERE id = $1, then the permission and status checks
PatchBookingsCancel_Check(p, u, bid) ==
    /\ pc[p] = "idle"
    /\ UNCHANGED <<dbBook, dbReq>>
    /\ IF ~BookingExists(bid) THEN Respond(p, "cancel_booking", bid, 404, "booking_not_found")
       ELSE IF tour_bookings[bid].user_id # u THEN Respond(p, "cancel_booking", bid, 403, "forbidden")
       ELSE IF ~CancellableA(tour_bookings[bid].status)
            THEN Respond(p, "cancel_booking", bid, 400, "cannot_cancel")
       ELSE /\ SeatsInRange(tour_bookings[bid].package_id)
            /\ Goto(p, "cx_status", [NoCall EXCEPT !.op = "cancel_booking", !.user = u, !.id = bid,
                                             !.n = tour_bookings[bid].num_travelers,
                                             !.row = tour_bookings[bid].package_id])

PatchBookingsCancel_Status(p) ==
    /\ pc[p] = "cx_status"
    /\ tour_bookings' = SetBookingStatus(call[p].id, "cancelled")
    /\ UNCHANGED <<tour_packages, dbReq>>
    /\ Goto(p, "cx_seats", call[p])

PatchBookingsCancel_Seats(p) ==
    /\ pc[p] = "cx_seats"
    /\ tour_packages' = ReturnSeats(call[p].row, call[p].n)
    /\ UNCHANGED <<tour_bookings, dbReq>>
    /\ RespondLogged(p, "cancel_booking", call[p].id, 200,
                     LogRecord("user", "cancel_booking", call[p].id, "null", "null"))

(***************************************************************************)
(* PATCH /user/bookings/:id/cancel: the second flow rejects cancelled and  *)
(* completed bookings, so it also cancels a confirmed one.                 *)
(***************************************************************************)
\* SELECT * FROM tour_bookings WHERE id = $1 AND user_id = $2, then the status checks
PatchUserBookingsCancel_Check(p, u, bid) ==
    /\ pc[p] = "idle"
    /\ UNCHANGED <<dbBook, dbReq>>
    /\ IF ~(BookingExists(bid) /\ tour_bookings[bid].user_id = u)
       THEN Respond(p, "cancel_booking", bid, 404, "booking_not_found")
       ELSE IF tour_bookings[bid].status = "cancelled"
            THEN Respond(p, "cancel_booking", bid, 400, "already_cancelled")
       ELSE IF tour_bookings[bid].status = "completed"
            THEN Respond(p, "cancel_booking", bid, 400, "cannot_cancel_completed")
       ELSE /\ SeatsInRange(tour_bookings[bid].package_id)
            /\ Goto(p, "ucx_status", [NoCall EXCEPT !.op = "cancel_booking", !.user = u, !.id = bid,
                                              !.n = tour_bookings[bid].num_travelers,
                                              !.row = tour_bookings[bid].package_id])

PatchUserBookingsCancel_Status(p) ==
    /\ pc[p] = "ucx_status"
    /\ tour_bookings' = SetBookingStatus(call[p].id, "cancelled")
    /\ UNCHANGED <<tour_packages, dbReq>>
    /\ Goto(p, "ucx_seats", call[p])

PatchUserBookingsCancel_Seats(p) ==
    /\ pc[p] = "ucx_seats"
    /\ tour_packages' = ReturnSeats(call[p].row, call[p].n)
    /\ UNCHANGED <<tour_bookings, dbReq>>
    /\ Respond(p, "cancel_booking", call[p].id, 200, "none")


(***************************************************************************)
(* PATCH /bookings/:id/status (admin): one UPDATE, no seat change.         *)
(***************************************************************************)
StatusInputs == BOOKING_STATUSES \cup {"refunded"}

\* a status route that gives the seats back when it cancels a booking
PatchBookingsStatus_Credit(p, bid, status) ==
    /\ pc[p] = "idle"
    /\ UNCHANGED dbReq
    /\ IF status \in BOOKING_STATUSES /\ BookingExists(bid)
       THEN /\ tour_bookings' = SetBookingStatus(bid, status)
            /\ tour_packages' = IF status = "cancelled"
                                THEN ReturnSeats(tour_bookings[bid].package_id,
                                                 tour_bookings[bid].num_travelers)
                                ELSE tour_packages
            /\ Respond(p, "update_booking_status", bid, 200, "none")
       ELSE /\ UNCHANGED <<tour_packages, tour_bookings>>
            /\ Respond(p, "update_booking_status", bid,
                       IF status \in BOOKING_STATUSES THEN 404 ELSE 400, "rejected")

PatchBookingsStatus(p, bid, status) ==
    /\ pc[p] = "idle"
    /\ UNCHANGED <<tour_packages, dbReq>>
    /\ IF status \notin BOOKING_STATUSES
       THEN /\ UNCHANGED tour_bookings
            /\ Respond(p, "update_booking_status", bid, 400, "invalid_status")
       ELSE IF ~BookingExists(bid)
       THEN /\ UNCHANGED tour_bookings
            /\ Respond(p, "update_booking_status", bid, 404, "booking_not_found")
       ELSE /\ tour_bookings' = SetBookingStatus(bid, status)
            /\ RespondLogged(p, "update_booking_status", bid, 200,
                             LogRecord("admin", "update_booking_status", bid, "null", "null"))

(***************************************************************************)
(* PUT /packages/:id (admin): every supplied field is written as sent.     *)
(***************************************************************************)
Supplied(vals) == {{}} \cup {{v} : v \in vals}

FieldAfterUpdate(old, field) == IF field = {} THEN old ELSE CHOOSE v \in field : TRUE

\* an update that resets the fields the body leaves out
UpdatedPackage_Replacing(pkg, body) ==
    [pkg EXCEPT !.seats_available = FieldAfterUpdate(@, body.seats_available),
                !.seats_total = FieldAfterUpdate(@, body.seats_total),
                !.active = FieldAfterUpdate(@, body.active),
                !.title = FieldAfterUpdate(@, body.title),
                !.slug = IF body.title = {} THEN @ ELSE generateSlug(FieldAfterUpdate(@, body.title)),
                !.price = FieldAfterUpdate(@, body.price),
                !.featured = FieldAfterUpdate(FALSE, body.featured)]

\* the SET list: one entry per supplied field, and slug with title
UpdatedPackage(pkg, body) ==
    [pkg EXCEPT !.seats_available = FieldAfterUpdate(@, body.seats_available),
                !.seats_total = FieldAfterUpdate(@, body.seats_total),
                !.active = FieldAfterUpdate(@, body.active),
                !.title = FieldAfterUpdate(@, body.title),
                !.slug = IF body.title = {} THEN @ ELSE generateSlug(FieldAfterUpdate(@, body.title)),
                !.price = FieldAfterUpdate(@, body.price),
                !.featured = FieldAfterUpdate(@, body.featured)]

\* const slug = title ? generateSlug(title) : undefined, sent as NULL, which
\* slug NOT NULL refuses
NullSlug(body) == body.title = {<< >>}

\* SELECT id, title FROM tour_packages WHERE id = $1
PutPackages_Check(p, pid, body) ==
    /\ pc[p] = "idle"
    /\ UNCHANGED <<dbBook, dbReq>>
    /\ IF ~PkgExists(pid) THEN Respond(p, "update_package", pid, 404, "package_not_found")
       ELSE Goto(p, "pk_update", [NoCall EXCEPT !.op = "update_package", !.id = pid, !.body = body])

\* UPDATE tour_packages SET <supplied fields>, updated_at = ... WHERE id = $n
PutPackages_Update(p) ==
    /\ pc[p] = "pk_update"
    /\ UNCHANGED <<tour_bookings, dbReq>>
    /\ IF PkgExists(call[p].id) /\ NullSlug(call[p].body)
       THEN /\ UNCHANGED tour_packages
            /\ Respond(p, "update_package", call[p].id, 500, "failed")
       ELSE IF /\ PkgExists(call[p].id)
               /\ call[p].body.title # {}
               /\ SlugTaken(UpdatedPackage(tour_packages[call[p].id], call[p].body).slug, call[p].id)
       THEN /\ UNCHANGED tour_packages
            /\ Respond(p, "update_package", call[p].id, 400, "title_exists")
       ELSE /\ tour_packages' =
                  IF PkgExists(call[p].id)
                  THEN [tour_packages EXCEPT ![call[p].id] = UpdatedPackage(@, call[p].body)]
                  ELSE tour_packages
            /\ RespondLogged(p, "update_package", call[p].id, 200,
                             LogRecord("admin", "update_package", call[p].id, "null", "null"))

(***************************************************************************)
(* DELETE /packages/:id (admin): the bookings of the package go with it    *)
(* (ON DELETE CASCADE).                                                    *)
(***************************************************************************)
DeletePackages_Check(p, pid) ==
    /\ pc[p] = "idle"
    /\ UNCHANGED <<dbBook, dbReq>>
    /\ IF ~PkgExists(pid) THEN Respond(p, "delete_package", pid, 404, "package_not_found")
       ELSE Goto(p, "pk_delete", [NoCall EXCEPT !.op = "delete_package", !.id = pid])

\* DELETE FROM tour_packages WHERE id = $1
DeletePackages_Delete(p) ==
    /\ pc[p] = "pk_delete"
    /\ tour_packages' =
          IF PkgExists(call[p].id)
          THEN [tour_packages EXCEPT ![call[p].id] = DeletedPackage]
          ELSE tour_packages
    /\ tour_bookings' =
          [b \in BookingIds |->
              IF tour_bookings[b].present /\ tour_bookings[b].package_id = call[p].id
              THEN DeletedBooking ELSE tour_bookings[b]]
    /\ UNCHANGED dbReq
    /\ RespondLogged(p, "delete_package", call[p].id, 200,
                     LogRecord("admin", "delete_package", call[p].id, "null", "null"))

(***************************************************************************)
(* PATCH /packages/:id/toggle-featured (admin): reads the flag, writes its *)
(* negation; the handler makes no ledger entry.                            *)
(***************************************************************************)
\* SELECT id, title, featured FROM tour_packages WHERE id = $1
PatchToggleFeatured_Check(p, pid) ==
    /\ pc[p] = "idle"
    /\ UNCHANGED <<dbBook, dbReq>>
    /\ IF ~PkgExists(pid) THEN Respond(p, "toggle_featured", pid, 404, "package_not_found")
       ELSE Goto(p, "pf_update", [NoCall EXCEPT !.op = "toggle_featured", !.id = pid,
                                        !.body = [NoFields EXCEPT !.featured = {~tour_packages[pid].featured}]])

\* UPDATE tour_packages SET featured = $1, updated_at = ... WHERE id = $2
PatchToggleFeatured_Update(p) ==
    /\ pc[p] = "pf_update"
    /\ tour_packages' =
          IF PkgExists(call[p].id)
          THEN [tour_packages EXCEPT ![call[p].id].featured = FieldAfterUpdate(@, call[p].body.featured)]
          ELSE tour_packages
    /\ UNCHANGED <<tour_bookings, dbReq>>
    /\ Respond(p, "toggle_featured", call[p].id, 200, "none")

AdminStart(p) ==
    \/ \E bid \in BookingInputIds, st \in StatusInputs : PatchBookingsStatus(p, bid, st)
    \/ \E pid \in PackageInputIds, sa \in Supplied(SeatVals), st \in Supplied(SeatVals),
          ac \in Supplied(BOOLEAN) :
          PutPackages_Check(p, pid, [NoFields EXCEPT !.seats_available = sa, !.seats_total = st, !.active = ac])
    \/ \E pid \in PackageInputIds : DeletePackages_Check(p, pid)

AdminStep(p) ==
    \/ PutPackages_Update(p)
    \/ DeletePackages_Delete(p)

(***************************************************************************)
(* A statement that fails (the connection drops, the pool is exhausted,    *)
(* the server restarts): pool.query rejects, the statement has no effect   *)
(* and the handler's catch block answers 500.  What earlier statements     *)
(* wrote stays written.                                                    *)
(***************************************************************************)
InFlight(p) == pc[p] \notin {"idle", "done"}

StatementFails(p) ==
    /\ InFlight(p)
    /\ UNCHANGED <<dbBook, dbReq>>
    /\ Respond(p, call[p].op, call[p].id, 500, "failed")

(***************************************************************************)
(* The booking calls: a call starts with its _Check action and continues   *)
(* with the statements that follow.                                        *)
(***************************************************************************)
BookingStart(p) ==
    \/ \E u \in Customers, pid \in PackageInputIds, n \in TravelerVals : PostBookings_Check(p, u, pid, n)
    \/ \E u \in Customers, pid \in PackageInputIds, n \in TravelerVals : PostUserBookings_Check(p, u, pid, n)
    \/ \E u \in Customers, bid \in BookingInputIds : PatchBookingsCancel_Check(p, u, bid)
    \/ \E u \in Customers, bid \in BookingInputIds : PatchUserBookingsCancel_Check(p, u, bid)

BookingStep(p) ==
    \/ PostBookings_Insert(p)
    \/ PostBookings_Seats(p)
    \/ PostUserBookings_Insert(p)
    \/ PostUserBookings_Seats(p)
    \/ PatchBookingsCancel_Status(p)
    \/ PatchBookingsCancel_Seats(p)
    \/ PatchUserBookingsCancel_Status(p)
    \/ PatchUserBookingsCancel_Seats(p)

(***************************************************************************)
(* SpecBookSeq: bookings are created and cancelled one call at a time and  *)
(* every statement succeeds.                                               *)
(***************************************************************************)
NextBookSeq ==
    \/ \E st \in 1 .. MaxSeats : Quiet /\ PostPackages(st)
    \/ \E p \in SeqProcs : BookingStart(p)
    \/ \E p \in SeqProcs : BookingStep(p)
    \/ \E p \in SeqProcs : Return(p)

SpecBookSeq == Init /\ [][NextBookSeq]_vars

(***************************************************************************)
(* SpecBook: the same calls, two at a time, interleaved at their           *)
(* statements.                                                             *)
(***************************************************************************)
NextBook ==
    \/ \E st \in 1 .. MaxSeats : PostPackages(st)
    \/ \E p \in Procs : BookingStart(p)
    \/ \E p \in Procs : BookingStep(p)
    \/ \E p \in Procs : Return(p)

SpecBook == Init /\ [][NextBook]_vars

(***************************************************************************)
(* SpecBookFault: one call at a time, and any statement may fail.          *)
(***************************************************************************)
NextBookFault ==
    \/ NextBookSeq
    \/ \E p \in SeqProcs : StatementFails(p)

SpecBookFault == Init /\ [][NextBookFault]_vars

(***************************************************************************)
(* SpecAdmin: one call at a time, the administrator's operations on        *)
(* bookings and packages included.                                         *)
(***************************************************************************)
NextAdmin ==
    \/ \E st \in 1 .. MaxSeats : Quiet /\ PostPackages(st)
    \/ \E p \in SeqProcs : BookingStart(p)
    \/ \E p \in SeqProcs : BookingStep(p)
    \/ \E p \in SeqProcs : AdminStart(p)
    \/ \E p \in SeqProcs : AdminStep(p)
    \/ \E p \in SeqProcs : Return(p)

SpecAdmin == Init /\ [][NextAdmin]_vars

(***************************************************************************)
(* Seat accounting.                                                        *)
(***************************************************************************)
ActiveBooking(b) == b.present /\ b.status \in {"pending", "confirmed"}

RECURSIVE ReservedUpTo(_, _)
ReservedUpTo(pid, k) ==
    IF k = 0 THEN 0
    ELSE ReservedUpTo(pid, k - 1) +
         (IF ActiveBooking(tour_bookings[k]) /\ tour_bookings[k].package_id = pid
          THEN tour_bookings[k].num_travelers ELSE 0)

\* travellers on the pending and confirmed bookings of package pid
Reserved(pid) == ReservedUpTo(pid, Len(tour_bookings))

SeatEquation(pid) ==
    tour_packages[pid].seats_available = tour_packages[pid].seats_total - Reserved(pid)

\* C1: after any sequence of createBooking and cancelBooking calls executed one
\* after the other, every package has seats_available = seats_total minus the
\* travellers of its pending and confirmed bookings.
C1_SeatEquation ==
    Quiet => \A pid \in PkgIds : PkgExists(pid) => SeatEquation(pid)

\* a booking was made and another one cancelled on the same package
C1_Witness ==
    /\ Quiet
    /\ \E a, b \in BookingIds :
          /\ tour_bookings[a].status = "cancelled"
          /\ tour_bookings[b].status = "pending"
          /\ tour_bookings[a].package_id = tour_bookings[b].package_id
          /\ tour_packages[tour_bookings[a].package_id].seats_available
                < tour_packages[tour_bookings[a].package_id].seats_total

\* C2: under two interleaved createBooking calls no package is oversold:
\* seats_available never drops below 0 and the travellers on pending and
\* confirmed bookings never exceed seats_total.
C2_NoOversell ==
    \A pid \in PkgIds :
        PkgExists(pid) =>
            /\ tour_packages[pid].seats_available >= 0
            /\ Reserved(pid) <= tour_packages[pid].seats_total

\* C3: 0 <= seats_available <= seats_total for every package after every
\* operation, the administrator's booking-status and package updates included.
C3_SeatsWithinTotal ==
    Quiet =>
        \A pid \in PkgIds :
            PkgExists(pid) =>
                /\ 0 <= tour_packages[pid].seats_available
                /\ tour_packages[pid].seats_available <= tour_packages[pid].seats_total

\* C4: createBooking's insert and seat decrement are one atomic unit: whenever
\* a createBooking call has ended, with success or with an error, the package
\* it named has exactly the seats of its pending and confirmed bookings taken.
C4_CreateBookingAtomic ==
    \A p \in Procs :
        (pc[p] = "done" /\ call[p].op = "create_booking" /\ PkgExists(call[p].id))
            => SeatEquation(call[p].id)

\* C5: of two concurrent cancelBooking calls for one booking at most one
\* succeeds and returns the seats; the other is rejected.
C5_CancelOnce ==
    \A p, q \in Procs :
        (/\ p # q
         /\ pc[p] = "done" /\ pc[q] = "done"
         /\ call[p].op = "cancel_booking" /\ call[q].op = "cancel_booking"
         /\ call[p].id = call[q].id)
            => ~(res[p].code = 200 /\ res[q].code = 200)

CancelCheck(p) ==
    \/ \E u \in Customers, bid \in BookingInputIds : PatchBookingsCancel_Check(p, u, bid)
    \/ \E u \in Customers, bid \in BookingInputIds : PatchUserBookingsCancel_Check(p, u, bid)

\* C6: a cancelBooking call made, with no other call running, on a booking
\* whose status is already cancelled is answered with an error (4xx) and
\* changes neither the bookings nor any package.
C6_RecancelRejected ==
    [][\A p \in Procs :
          (/\ CancelCheck(p)
           /\ call'[p].id \in BookingIds
           /\ tour_bookings[call'[p].id].present
           /\ tour_bookings[call'[p].id].status = "cancelled")
              => /\ pc'[p] = "done"
                 /\ res'[p].code \in {400, 403, 404}
                 /\ tour_bookings' = tour_bookings
                 /\ tour_packages' = tour_packages]_vars

\* the owner's second cancel of a booking has been rejected
C6_Witness ==
    \E p \in Procs :
        /\ pc[p] = "done"
        /\ call[p].op = "cancel_booking"
        /\ res[p].code = 400
        /\ BookingExists(call[p].id)
        /\ tour_bookings[call[p].id].status = "cancelled"
        /\ SeatEquation(tour_bookings[call[p].id].package_id)

(***************************************************************************)
(* The travel requests.  A row of requests is [user_id, status,            *)
(* tour_guide_id]; active[g] is users.active of tour guide g.  The /agent  *)
(* and SQLite variants of these handlers issue the same statements under   *)
(* the older column name agent_id.                                         *)
(***************************************************************************)
REQUEST_STATUSES == {"pending", "assigned", "in_progress", "completed", "cancelled"}

\* a table that lets a guide complete a request it has not started
VALID_TRANSITIONS_Skip(status) ==
    CASE status = "assigned" -> {"in_progress", "completed"}
      [] status = "in_progress" -> {"completed"}
      [] OTHER -> {}

\* const VALID_TRANSITIONS = { assigned: ['in_progress'], in_progress: ['completed'] }
VALID_TRANSITIONS(status) ==
    CASE status = "assigned" -> {"in_progress"}
      [] status = "in_progress" -> {"completed"}
      [] OTHER -> {}

ALLOWED_STATUSES == {"assigned", "in_progress", "completed"}

WORKLOAD_CAP == 10

RequestIds == 1 .. Len(requests)
RequestInputIds == 1 .. (MaxRequests + 1)
\* ids an administrator may send as tourGuideId: the guides, a user who is no
\* tour guide, and a value that is no integer
GuideInputs == Guides \cup {"u1", "invalid"}
DestinationInputs == {"missing", "blank", "valid", "too_long"}

\* POST /user/requests
PostUserRequests(p, u, destination) ==
    /\ pc[p] = "idle"
    /\ UNCHANGED <<dbBook, active>>
    /\ IF destination = "missing"
       THEN UNCHANGED requests /\ Respond(p, "create_request", 0, 400, "destination_required")
       ELSE IF destination = "blank"
       THEN UNCHANGED requests /\ Respond(p, "create_request", 0, 400, "destination_empty")
       ELSE IF destination = "too_long"
       THEN UNCHANGED requests /\ Respond(p, "create_request", 0, 400, "destination_too_long")
       ELSE /\ Len(requests) < MaxRequests
            /\ requests' = Append(requests, [user_id |-> u, status |-> "pending", tour_guide_id |-> Null])
            /\ RespondLogged(p, "create_request", Len(requests) + 1, 201,
                             LogRecord("user", "create_request", Len(requests) + 1, "null", "null"))

(***************************************************************************)
(* POST /admin/requests/:id/assign                                         *)
(***************************************************************************)
\* SELECT COUNT(*) FROM requests WHERE tour_guide_id = $1 AND status IN ('assigned', 'in_progress')
Workload(g) ==
    Cardinality({r \in RequestIds :
        requests[r].tour_guide_id = g /\ requests[r].status \in {"assigned", "in_progress"}})

\* the assigning UPDATE without its status filter
AssignMatches_AnyStatus(rid) == rid \in RequestIds

\* the WHERE clause of the assigning UPDATE
AssignMatches(rid) == rid \in RequestIds /\ requests[rid].status = "pending"

\* the status is set and the guide column forgotten
AssignedRequest_NoGuide(r, g) == [r EXCEPT !.status = "assigned"]

\* SET status = 'assigned', tour_guide_id = $1
AssignedRequest(r, g) == [r EXCEPT !.status = "assigned", !.tour_guide_id = g]

\* a validation that does not look at users.active
ValidateGuide_AnyActive(p, op, rid, g, next) ==
    IF g = "invalid" THEN Respond(p, op, rid, 400, "guide_id_required")
    ELSE IF g \notin Guides THEN Respond(p, op, rid, 400, "guide_not_found")
    ELSE Goto(p, next, [NoCall EXCEPT !.op = op, !.id = rid, !.arg = g])

\* SELECT id, name, active FROM users WHERE id = $1 AND role = 'tour_guide'
ValidateGuide(p, op, rid, g, next) ==
    IF g = "invalid" THEN Respond(p, op, rid, 400, "guide_id_required")
    ELSE IF g \notin Guides THEN Respond(p, op, rid, 400, "guide_not_found")
    ELSE IF ~active[g] THEN Respond(p, op, rid, 400, "guide_not_active")
    ELSE Goto(p, next, [NoCall EXCEPT !.op = op, !.id = rid, !.arg = g])

PostAssign_Guide(p, rid, g) ==
    /\ pc[p] = "idle"
    /\ UNCHANGED <<dbBook, dbReq>>
    /\ ValidateGuide(p, "assign_request", rid, g, "as_load")

\* a cap that lets the guide reach one request more
OverCap_Above(n) == n > WORKLOAD_CAP

\* a cap that is never reached
OverCap_Never(n) == FALSE

\* parseInt(workloadResult.rows[0].active_count) >= 10
OverCap(n) == n >= WORKLOAD_CAP

PostAssign_Load(p) ==
    /\ pc[p] = "as_load"
    /\ UNCHANGED <<dbBook, dbReq>>
    /\ IF OverCap(Workload(call[p].arg))
       THEN Respond(p, "assign_request", call[p].id, 400, "too_many_active")
       ELSE Goto(p, "as_update", call[p])

\* UPDATE requests SET status = 'assigned', tour_guide_id = $1 WHERE id = $2 AND status = 'pending'
PostAssign_Update(p) ==
    /\ pc[p] = "as_update"
    /\ UNCHANGED <<dbBook, active>>
    /\ IF AssignMatches(call[p].id)
       THEN /\ requests' = [requests EXCEPT ![call[p].id] = AssignedRequest(@, call[p].arg)]
            /\ RespondKeepingLogged(p, 200, LogRecord("admin", "assign_request", call[p].id, "null", "null"))
       ELSE /\ UNCHANGED requests
            /\ Goto(p, "as_recheck", call[p])

\* rowCount = 0: SELECT id, status FROM requests WHERE id = $1
PostAssign_Recheck(p) ==
    /\ pc[p] = "as_recheck"
    /\ UNCHANGED <<dbBook, dbReq>>
    /\ IF call[p].id \notin RequestIds
       THEN Respond(p, "assign_request", call[p].id, 404, "request_not_found")
       ELSE RespondKeeping(p, 400, "cannot_assign", requests[call[p].id].status)

(***************************************************************************)
(* POST /admin/requests/:id/reassign                                       *)
(***************************************************************************)
\* a reassign that accepts a finished request as well
Reassignable_Terminal(status) == status \in {"assigned", "in_progress", "completed", "cancelled"}

\* ['assigned', 'in_progress'].includes(request.status)
Reassignable(status) == status \in {"assigned", "in_progress"}

PostReassign_Guide(p, rid, g) ==
    /\ pc[p] = "idle"
    /\ UNCHANGED <<dbBook, dbReq>>
    /\ ValidateGuide(p, "reassign_request", rid, g, "rs_select")

\* SELECT r.id, r.status, r.tour_guide_id ... FROM requests r ... WHERE r.id = $1
PostReassign_Select(p) ==
    /\ pc[p] = "rs_select"
    /\ UNCHANGED <<dbBook, dbReq>>
    /\ IF call[p].id \notin RequestIds
       THEN Respond(p, "reassign_request", call[p].id, 404, "request_not_found")
       ELSE IF ~Reassignable(requests[call[p].id].status)
       THEN RespondNaming(p, "reassign_request", call[p].id, 400, "cannot_reassign",
                          requests[call[p].id].status)
       ELSE Goto(p, "rs_update", [call[p] EXCEPT !.seen = requests[call[p].id].status])

\* a reassign that also puts the request back to assigned
ReassignedRequest_Reset(r, g) == [r EXCEPT !.tour_guide_id = g, !.status = "assigned"]

\* SET tour_guide_id = $1, updated_at = CURRENT_TIMESTAMP
ReassignedRequest(r, g) == [r EXCEPT !.tour_guide_id = g]

\* UPDATE requests SET tour_guide_id = $1 WHERE id = $2
PostReassign_Update(p) ==
    /\ pc[p] = "rs_update"
    /\ UNCHANGED <<dbBook, active>>
    /\ requests' = IF call[p].id \in RequestIds
                    THEN [requests EXCEPT ![call[p].id] = ReassignedRequest(@, call[p].arg)]
                    ELSE requests
    /\ RespondLogged(p, "reassign_request", call[p].id, 200,
                     LogRecord("admin", "reassign_request", call[p].id, "null", "null"))

(***************************************************************************)
(* POST /tour-guide/requests/:id/status                                    *)
(***************************************************************************)
\* the row SELECT status FROM requests WHERE id = $1 AND tour_guide_id = $2 finds
OwnedBy(rid, g) == rid \in RequestIds /\ requests[rid].tour_guide_id = g

PostStatus_Check(p, g, rid, status) ==
    /\ pc[p] = "idle"
    /\ UNCHANGED <<dbBook, dbReq>>
    /\ IF status \notin ALLOWED_STATUSES
       THEN Respond(p, "update_status", rid, 400, "invalid_status")
       ELSE IF ~OwnedBy(rid, g)
       THEN Respond(p, "update_status", rid, 404, "not_found_or_not_assigned")
       ELSE IF status \notin VALID_TRANSITIONS(requests[rid].status)
       THEN RespondNaming(p, "update_status", rid, 400, "invalid_transition", requests[rid].status)
       ELSE Goto(p, "st_update", [NoCall EXCEPT !.op = "update_status", !.user = g, !.id = rid,
                                        !.arg = status, !.seen = requests[rid].status])

\* an UPDATE that looks for the request by its id alone
StatusMatches_AnyGuide(rid, g) == rid \in RequestIds

\* the WHERE clause of the UPDATE: id = $2 AND tour_guide_id = $3
StatusMatches(rid, g) == rid \in RequestIds /\ requests[rid].tour_guide_id = g

\* UPDATE requests SET status = $1 WHERE id = $2 AND tour_guide_id = $3
PostStatus_Update(p) ==
    /\ pc[p] = "st_update"
    /\ UNCHANGED <<dbBook, active>>
    /\ IF StatusMatches(call[p].id, call[p].user)
       THEN /\ requests' = [requests EXCEPT ![call[p].id].status = call[p].arg]
            /\ RespondLogged(p, "update_status", call[p].id, 200,
                             LogRecord("tour_guide", "update_status", call[p].id, call[p].seen, call[p].arg))
       ELSE /\ UNCHANGED requests
            /\ Respond(p, "update_status", call[p].id, 404, "request_not_found")

(***************************************************************************)
(* PATCH /user/requests/:id/cancel                                         *)
(***************************************************************************)
\* a request in progress is cancellable as well
CancellableRequest_InProgress(status) == status \in {"pending", "assigned", "in_progress"}

CancellableRequest(status) == status \in {"pending", "assigned"}

\* SELECT id, status FROM requests WHERE id = $1 AND user_id = $2
PatchCancel_Check(p, u, rid) ==
    /\ pc[p] = "idle"
    /\ UNCHANGED <<dbBook, dbReq>>
    /\ IF ~(rid \in RequestIds /\ requests[rid].user_id = u)
       THEN Respond(p, "cancel_request", rid, 404, "request_not_found")
       ELSE IF ~CancellableRequest(requests[rid].status)
       THEN RespondNaming(p, "cancel_request", rid, 400, "cannot_cancel", requests[rid].status)
       ELSE Goto(p, "rc_update", [NoCall EXCEPT !.op = "cancel_request", !.user = u, !.id = rid,
                                        !.seen = requests[rid].status])

\* a cancel that also takes the guide off the request
CancelledRequest_Unassigned(r) == [r EXCEPT !.status = "cancelled", !.tour_guide_id = Null]

\* UPDATE requests SET status = 'cancelled' WHERE id = $1
CancelledRequest(r) == [r EXCEPT !.status = "cancelled"]

PatchCancel_Update(p) ==
    /\ pc[p] = "rc_update"
    /\ UNCHANGED <<dbBook, active>>
    /\ requests' = IF call[p].id \in RequestIds
                    THEN [requests EXCEPT ![call[p].id] = CancelledRequest(@)]
                    ELSE requests
    /\ RespondLogged(p, "cancel_request", call[p].id, 200,
                     LogRecord("user", "cancel_request", call[p].id, "null", "null"))

(***************************************************************************)
(* PATCH /admin/tour-guides/:id/toggle-active                              *)
(***************************************************************************)
PatchToggleActive_Check(p, g) ==
    /\ pc[p] = "idle"
    /\ UNCHANGED <<dbBook, dbReq>>
    /\ IF g \notin Guides
       THEN Respond(p, "toggle_active", 0, IF g = "invalid" THEN 400 ELSE 404, "guide_not_found")
       ELSE Goto(p, "tg_update", [NoCall EXCEPT !.op = "toggle_active", !.arg = g,
                                        !.body = [NoFields EXCEPT !.active = {~active[g]}]])

\* UPDATE users SET active = $1 WHERE id = $2
PatchToggleActive_Update(p) ==
    /\ pc[p] = "tg_update"
    /\ UNCHANGED <<dbBook, requests>>
    /\ active' = [active EXCEPT ![call[p].arg] = CHOOSE v \in call[p].body.active : TRUE]
    /\ RespondLogged(p, "toggle_active", 0, 200,
                     LogRecord("admin", "toggletour_guide_status", 0, "null", "null"))

RequestStart(p) ==
    \/ \E u \in Customers, d \in DestinationInputs : PostUserRequests(p, u, d)
    \/ \E rid \in RequestInputIds, g \in GuideInputs : PostAssign_Guide(p, rid, g)
    \/ \E rid \in RequestInputIds, g \in GuideInputs : PostReassign_Guide(p, rid, g)
    \/ \E g \in Guides, rid \in RequestInputIds, st \in REQUEST_STATUSES : PostStatus_Check(p, g, rid, st)
    \/ \E u \in Customers, rid \in RequestInputIds : PatchCancel_Check(p, u, rid)
    \/ \E g \in GuideInputs : PatchToggleActive_Check(p, g)

RequestStep(p) ==
    \/ PostAssign_Load(p)
    \/ PostAssign_Update(p)
    \/ PostAssign_Recheck(p)
    \/ PostReassign_Select(p)
    \/ PostReassign_Update(p)
    \/ PostStatus_Update(p)
    \/ PatchCancel_Update(p)
    \/ PatchToggleActive_Update(p)

(***************************************************************************)
(* SpecReqSeq: the request operations, one call at a time.                 *)
(* SpecReq: the same, two calls at a time, interleaved at their statements.*)
(***************************************************************************)
NextReqSeq ==
    \/ \E p \in SeqProcs : RequestStart(p)
    \/ \E p \in SeqProcs : RequestStep(p)
    \/ \E p \in SeqProcs : Return(p)

SpecReqSeq == Init /\ [][NextReqSeq]_vars

NextReq ==
    \/ \E p \in Procs : RequestStart(p)
    \/ \E p \in Procs : RequestStep(p)
    \/ \E p \in Procs : Return(p)

SpecReq == Init /\ [][NextReq]_vars

(***************************************************************************)
(* SpecAssignRace: two administrators each send one assign call; the       *)
(* requests are all pending and the calls interleave at their statements.  *)
(***************************************************************************)
PendingTables ==
    UNION {[1 .. k -> [user_id : Customers, status : {"pending"}, tour_guide_id : {Null}]] :
           k \in 1 .. MaxRequests}

InitAssignRace ==
    /\ tour_packages = << >>
    /\ tour_bookings = << >>
    /\ requests \in PendingTables
    /\ active \in [Guides -> BOOLEAN]
    /\ activity_logs = << >>
    /\ ledger_up = FALSE
    /\ catalog = Installed
    /\ pc = [p \in Procs |-> "idle"]
    /\ call = [p \in Procs |-> NoCall]
    /\ res = [p \in Procs |-> NoRes]

NextAssignRace ==
    \/ \E p \in Procs, rid \in RequestInputIds, g \in GuideInputs : PostAssign_Guide(p, rid, g)
    \/ \E p \in Procs : PostAssign_Load(p)
    \/ \E p \in Procs : PostAssign_Update(p)
    \/ \E p \in Procs : PostAssign_Recheck(p)

SpecAssignRace == InitAssignRace /\ [][NextAssignRace]_vars

(***************************************************************************)
(* The request lifecycle.                                                  *)
(***************************************************************************)
HasGuide(r) == requests[r].tour_guide_id # Null

GuideEdges == {<<"assigned", "in_progress">>, <<"in_progress", "completed">>}

\* C8: advanceStatus writes a status only along assigned -> in_progress or
\* in_progress -> completed, from the status the request has when it is
\* written; a call that is rejected leaves the requests as they were.
C8_AdvanceOnlyAllowed ==
    [][\A p \in Procs :
          /\ (pc[p] = "st_update" /\ res'[p].code = 200)
                => /\ call[p].id \in RequestIds
                   /\ <<requests[call[p].id].status, requests'[call[p].id].status>> \in GuideEdges
                   /\ requests'[call[p].id].status = call[p].arg
          /\ (call'[p].op = "update_status" /\ pc'[p] = "done" /\ res'[p].code # 200)
                => requests' = requests
          /\ (call'[p].op = "update_status" /\ pc'[p] = "st_update")
                => <<requests[call'[p].id].status, call'[p].arg>> \in GuideEdges]_vars

\* the guide asked for completed while the request was assigned, and was refused
C8_Witness ==
    \E p \in Procs :
        /\ pc[p] = "done"
        /\ call[p].op = "update_status"
        /\ res[p] = [code |-> 400, err |-> "invalid_transition", names |-> "assigned"]
        /\ requests[call[p].id].status = "assigned"

\* the process whose statement made the step
Acting(p) == pc'[p] # pc[p]

\* C9: executed one call at a time, a request's status changes only along
\* pending -> assigned (assign), assigned -> in_progress and in_progress ->
\* completed (advanceStatus by the request's guide), pending -> cancelled and
\* assigned -> cancelled (cancel by the request's owner).
C9_OnlyLifecycleEdges ==
    [][\A r \in RequestIds :
          requests'[r].status # requests[r].status =>
              \E p \in Procs :
                  /\ Acting(p)
                  /\ \/ /\ call[p].op = "assign_request"
                        /\ requests[r].status = "pending"
                        /\ requests'[r].status = "assigned"
                     \/ /\ call[p].op = "update_status"
                        /\ call[p].user = requests[r].tour_guide_id
                        /\ <<requests[r].status, requests'[r].status>> \in GuideEdges
                     \/ /\ call[p].op = "cancel_request"
                        /\ call[p].user = requests[r].user_id
                        /\ requests[r].status \in {"pending", "assigned"}
                        /\ requests'[r].status = "cancelled"]_vars

\* a request has gone all the way to completed
C9_Witness ==
    \E r \in RequestIds : requests[r].status = "completed"

RacedAssign(p, q) ==
    /\ p # q
    /\ pc[p] = "done" /\ pc[q] = "done"
    /\ call[p].op = "assign_request" /\ call[q].op = "assign_request"
    /\ call[p].id = call[q].id
    /\ call[p].id \in RequestIds
    /\ res[p].err \in {"none", "cannot_assign"}
    /\ res[q].err \in {"none", "cannot_assign"}

\* C10: when two assign calls for the same pending request have both run
\* their UPDATE, exactly one has succeeded, the request is assigned to the
\* guide of that call, and the other call reports that a request with status
\* assigned cannot be assigned.
C10_OneAssignWins ==
    \A p, q \in Procs :
        RacedAssign(p, q) =>
            \E w \in {p, q} :
                LET l == IF w = p THEN q ELSE p IN
                /\ res[w].code = 200
                /\ requests[call[w].id].status = "assigned"
                /\ requests[call[w].id].tour_guide_id = call[w].arg
                /\ res[l] = [code |-> 400, err |-> "cannot_assign", names |-> "assigned"]

\* both calls named different guides and one of them lost
C10_Witness ==
    \E p, q \in Procs :
        /\ RacedAssign(p, q)
        /\ call[p].arg # call[q].arg
        /\ res[p].code = 200
        /\ res[q].code = 400

(***************************************************************************)
(* Terminal requests.                                                      *)
(***************************************************************************)
Terminal(status) == status \in {"completed", "cancelled"}

RequestOps == {"assign_request", "reassign_request", "update_status", "cancel_request"}

\* the call of p ends in this step
Finishes(p) == pc[p] # "done" /\ pc'[p] = "done"

\* C11: executed one call at a time, no step changes the status or the
\* tour_guide_id of a request that is completed or cancelled, and every assign,
\* reassign, advanceStatus and cancel call on such a request ends rejected.
C11_TerminalFrozen ==
    [][\A r \in RequestIds :
          Terminal(requests[r].status) =>
              /\ requests'[r] = requests[r]
              /\ \A p \in Procs :
                    (Finishes(p) /\ call'[p].op \in RequestOps /\ call'[p].id = r)
                        => res'[p].code # 200]_vars

\* a reassign of a completed request has been refused
C11_Witness ==
    \E p \in Procs :
        /\ pc[p] = "done"
        /\ call[p].op = "reassign_request"
        /\ call[p].id \in RequestIds
        /\ requests[call[p].id].status = "completed"
        /\ res[p] = [code |-> 400, err |-> "cannot_reassign", names |-> "completed"]

(***************************************************************************)
(* The workload cap.  The tables start with guide g1 holding 9 or 10       *)
(* active requests (the first in progress, the others assigned), followed  *)
(* by a few requests that are pending or assigned to g2; the calls are     *)
(* aimed at the last request of g1 and at the ones after it.               *)
(* SpecLoadSeq: assign, reassign, status and cancel, one call at a time.   *)
(* SpecLoadRace: two assign calls, interleaved at their statements.        *)
(***************************************************************************)
ExtraRequests == MaxRequests + 1

HeldVals == {WORKLOAD_CAP - 1, WORKLOAD_CAP}

HeldBlock(h) ==
    [i \in 1 .. h |-> [user_id |-> "u1",
                       status |-> IF i = 1 THEN "in_progress" ELSE "assigned",
                       tour_guide_id |-> "g1"]]

ExtraRows ==
    {[user_id |-> "u2", status |-> "pending", tour_guide_id |-> Null],
     [user_id |-> "u2", status |-> "assigned", tour_guide_id |-> "g2"]}

LoadedTables ==
    {HeldBlock(h) \o x : h \in HeldVals, x \in [1 .. ExtraRequests -> ExtraRows]}

LoadInputIds == WORKLOAD_CAP .. (WORKLOAD_CAP + ExtraRequests)

InitLoad ==
    /\ tour_packages = << >>
    /\ tour_bookings = << >>
    /\ requests \in LoadedTables
    /\ active = [g \in Guides |-> TRUE]
    /\ activity_logs = << >>
    /\ ledger_up = FALSE
    /\ catalog = Installed
    /\ pc = [p \in Procs |-> "idle"]
    /\ call = [p \in Procs |-> NoCall]
    /\ res = [p \in Procs |-> NoRes]

LoadStart(p) ==
    \/ \E rid \in LoadInputIds, g \in Guides : PostAssign_Guide(p, rid, g)
    \/ \E rid \in LoadInputIds, g \in Guides : PostReassign_Guide(p, rid, g)
    \/ \E g \in Guides, rid \in LoadInputIds, st \in ALLOWED_STATUSES : PostStatus_Check(p, g, rid, st)
    \/ \E u \in Customers, rid \in LoadInputIds : PatchCancel_Check(p, u, rid)

LoadStep(p) ==
    \/ PostAssign_Load(p)
    \/ PostAssign_Update(p)
    \/ PostAssign_Recheck(p)
    \/ PostReassign_Select(p)
    \/ PostReassign_Update(p)
    \/ PostStatus_Update(p)
    \/ PatchCancel_Update(p)

NextLoadSeq ==
    \/ \E p \in SeqProcs : LoadStart(p)
    \/ \E p \in SeqProcs : LoadStep(p)
    \/ \E p \in SeqProcs : Return(p)

SpecLoadSeq == InitLoad /\ [][NextLoadSeq]_vars

NextLoadRace ==
    \/ \E p \in Procs, rid \in LoadInputIds, g \in Guides : PostAssign_Guide(p, rid, g)
    \/ \E p \in Procs : PostAssign_Load(p)
    \/ \E p \in Procs : PostAssign_Update(p)
    \/ \E p \in Procs : PostAssign_Recheck(p)

SpecLoadRace == InitLoad /\ [][NextLoadRace]_vars

\* C12: executed one call at a time, no guide ever holds more than 10 requests
\* whose status is assigned or in_progress.
C12_WorkloadCapped ==
    \A g \in Guides : Workload(g) <= 10

\* C13: an assign call whose guide holds 10 requests in status assigned or
\* in_progress when the call counts them is rejected with the requests left
\* as they were, and no assign call succeeds for a guide who holds 10.
C13_AssignAtCapRejected ==
    [][\A p \in Procs :
          /\ (pc[p] = "as_load" /\ pc'[p] # "as_load" /\ Workload(call[p].arg) >= 10)
                => /\ pc'[p] = "done"
                   /\ res'[p] = [code |-> 400, err |-> "too_many_active", names |-> "none"]
                   /\ requests' = requests
          /\ (pc[p] = "as_update" /\ Finishes(p) /\ res'[p].code = 200)
                => Workload(call[p].arg) < 10]_vars

\* the guide holds 10 active requests and an assign to that guide was refused
C13_Witness ==
    \E p \in Procs :
        /\ pc[p] = "done"
        /\ call[p].op = "assign_request"
        /\ res[p].err = "too_many_active"
        /\ Workload("g1") = 10

\* two assign calls of different requests to one guide have both answered 200
BothAssigned(p, q) ==
    /\ p # q
    /\ pc[p] = "done" /\ pc[q] = "done"
    /\ call[p].op = "assign_request" /\ call[q].op = "assign_request"
    /\ res[p].code = 200 /\ res[q].code = 200
    /\ call[p].arg = call[q].arg
    /\ call[p].id # call[q].id

\* C14: the cap does not hold two interleaved assign calls back: when both
\* have passed the count with the guide at 9 they both commit, both requests
\* are assigned to the guide and the guide holds 11 active requests; two
\* calls exceed the cap by no more than that one request.
C14_CapAdvisory ==
    /\ \A g \in Guides : Workload(g) <= 11
    /\ \A p, q \in Procs :
          BothAssigned(p, q) =>
              /\ requests[call[p].id] = AssignedRequest(requests[call[p].id], call[p].arg)
              /\ requests[call[q].id] = AssignedRequest(requests[call[q].id], call[q].arg)

\* both calls committed and the guide holds 11 active requests
C14_Witness ==
    \E p, q \in Procs :
        /\ BothAssigned(p, q)
        /\ call[p].arg = "g1"
        /\ Workload("g1") = 11

(***************************************************************************)
(* SpecBookStatusSeq: bookings are created and cancelled and the           *)
(* administrator sets booking statuses, one call at a time.                *)
(***************************************************************************)
NextBookStatusSeq ==
    \/ \E st \in 1 .. MaxSeats : Quiet /\ PostPackages(st)
    \/ \E p \in SeqProcs : BookingStart(p)
    \/ \E p \in SeqProcs : BookingStep(p)
    \/ \E p \in SeqProcs, bid \in BookingInputIds, st \in StatusInputs : PatchBookingsStatus(p, bid, st)
    \/ \E p \in SeqProcs : Return(p)

SpecBookStatusSeq == Init /\ [][NextBookStatusSeq]_vars

\* C15: with the administrator's status updates (to confirmed, completed,
\* cancelled or back to pending) among the createBooking and cancelBooking
\* calls, every package still has seats_available = seats_total minus the
\* travellers of its pending and confirmed bookings whenever no call is
\* between two of its statements.
C15_SeatEquationWithStatus ==
    (\A p \in Procs : ~InFlight(p)) =>
        \A pid \in PkgIds : PkgExists(pid) => SeatEquation(pid)

(***************************************************************************)
(* SpecStatusFrame: one customer books and the administrator sets booking  *)
(* statuses, one call at a time.                                           *)
(***************************************************************************)
NextStatusFrame ==
    \/ \E st \in 1 .. MaxSeats : Quiet /\ PostPackages(st)
    \/ \E p \in SeqProcs, pid \in PackageInputIds, n \in TravelerVals : PostBookings_Check(p, "u1", pid, n)
    \/ \E p \in SeqProcs : PostBookings_Insert(p)
    \/ \E p \in SeqProcs : PostBookings_Seats(p)
    \/ \E p \in SeqProcs, bid \in BookingInputIds, st \in StatusInputs : PatchBookingsStatus(p, bid, st)
    \/ \E p \in SeqProcs : Return(p)

SpecStatusFrame == Init /\ [][NextStatusFrame]_vars

\* the administrator's status call of p is answered in this step
StatusCall(p) ==
    pc[p] = "idle" /\ pc'[p] = "done" /\ call'[p].op = "update_booking_status"

\* C16: the administrator's updateBookingStatus leaves every package as it
\* was, whatever status it is given, and changes nothing of the bookings but
\* the status of the booking it names.
C16_StatusKeepsSeats ==
    [][\A p \in Procs :
          StatusCall(p) =>
              /\ tour_packages' = tour_packages
              /\ Len(tour_bookings') = Len(tour_bookings)
              /\ \A b \in BookingIds :
                    tour_bookings'[b] = [tour_bookings[b] EXCEPT !.status = tour_bookings'[b].status]
              /\ \A b \in BookingIds :
                    b # call'[p].id => tour_bookings'[b] = tour_bookings[b]]_vars

\* the administrator has cancelled a booking and its seats are still taken
C16_Witness ==
    \E p \in Procs :
        /\ pc[p] = "done"
        /\ call[p].op = "update_booking_status"
        /\ res[p].code = 200
        /\ BookingExists(call[p].id)
        /\ tour_bookings[call[p].id].status = "cancelled"
        /\ PkgExists(tour_bookings[call[p].id].package_id)
        /\ tour_packages[tour_bookings[call[p].id].package_id].seats_available
              < tour_packages[tour_bookings[call[p].id].package_id].seats_total

\* C17: cancelBooking's two writes are one atomic unit: a cancelBooking call
\* that ended with a failure has not left its booking cancelled (with the
\* seats not returned).
C17_CancelBookingAtomic ==
    \A p \in Procs :
        (pc[p] = "done" /\ call[p].op = "cancel_booking" /\ res[p].code = 500
            /\ BookingExists(call[p].id))
            => tour_bookings[call[p].id].status # "cancelled"

\* the requests other than r stay as they are
OthersKept(r) == \A o \in RequestIds : o # r => requests'[o] = requests[o]

\* C18: executed one call at a time, a cancel of a request succeeds only for
\* the request's owner while the status is pending or assigned, and then sets
\* the status to cancelled and leaves tour_guide_id and every other request as
\* they were; a cancel by another user or of a request that is in_progress,
\* completed or cancelled is rejected and changes nothing.
C18_CancelByOwnerOnly ==
    [][\A p \in Procs :
          /\ (pc[p] = "rc_update" /\ Acting(p))
                => /\ res'[p].code = 200
                   /\ call[p].id \in RequestIds
                   /\ requests[call[p].id].user_id = call[p].user
                   /\ requests[call[p].id].status \in {"pending", "assigned"}
                   /\ requests'[call[p].id] = [requests[call[p].id] EXCEPT !.status = "cancelled"]
                   /\ OthersKept(call[p].id)
          /\ \A u \in Customers, rid \in RequestInputIds :
                (/\ PatchCancel_Check(p, u, rid)
                 /\ ~(/\ rid \in RequestIds
                      /\ requests[rid].user_id = u
                      /\ requests[rid].status \in {"pending", "assigned"}))
                    => /\ pc'[p] = "done"
                       /\ res'[p].code \in {400, 404}
                       /\ requests' = requests]_vars

\* the owner has cancelled an assigned request, which still names its guide
C18_Witness ==
    \E p \in Procs :
        /\ pc[p] = "done"
        /\ call[p].op = "cancel_request"
        /\ res[p].code = 200
        /\ requests[call[p].id].status = "cancelled"
        /\ HasGuide(call[p].id)

\* C19: a reassign that succeeds changes the request's tour_guide_id and
\* nothing else, its status in particular; executed one call at a time, a
\* reassign of a pending, completed or cancelled request is rejected and
\* changes nothing.
C19_ReassignKeepsStatus ==
    [][\A p \in Procs :
          /\ (pc[p] = "rs_update" /\ Acting(p))
                => /\ res'[p].code = 200
                   /\ call[p].id \in RequestIds
                   /\ requests'[call[p].id] =
                         [requests[call[p].id] EXCEPT !.tour_guide_id = call[p].arg]
                   /\ OthersKept(call[p].id)
          /\ (/\ pc[p] = "rs_select" /\ Acting(p)
              /\ call[p].id \in RequestIds
              /\ requests[call[p].id].status \in {"pending", "completed", "cancelled"})
                => /\ pc'[p] = "done"
                   /\ res'[p].code = 400
                   /\ requests' = requests]_vars

\* a request in progress has been reassigned and is still in progress
C19_Witness ==
    \E p \in Procs :
        /\ pc[p] = "done"
        /\ call[p].op = "reassign_request"
        /\ res[p].code = 200
        /\ requests[call[p].id].status = "in_progress"

(***************************************************************************)
(* SpecStatusRace: every request is assigned or in progress; a guide's     *)
(* status call and an administrator's reassign (or two of either) run once *)
(* each, interleaved at their statements.                                  *)
(***************************************************************************)
OwnedTables ==
    UNION {[1 .. k -> [user_id : {"u1"}, status : {"assigned", "in_progress"},
                       tour_guide_id : Guides]] : k \in 1 .. MaxRequests}

InitStatusRace ==
    /\ tour_packages = << >>
    /\ tour_bookings = << >>
    /\ requests \in OwnedTables
    /\ active = [g \in Guides |-> TRUE]
    /\ activity_logs = << >>
    /\ ledger_up = FALSE
    /\ catalog = Installed
    /\ pc = [p \in Procs |-> "idle"]
    /\ call = [p \in Procs |-> NoCall]
    /\ res = [p \in Procs |-> NoRes]

NextStatusRace ==
    \/ \E p \in Procs, g \in Guides, rid \in RequestInputIds, st \in ALLOWED_STATUSES :
          PostStatus_Check(p, g, rid, st)
    \/ \E p \in Procs : PostStatus_Update(p)
    \/ \E p \in Procs, rid \in RequestInputIds, g \in Guides : PostReassign_Guide(p, rid, g)
    \/ \E p \in Procs : PostReassign_Select(p)
    \/ \E p \in Procs : PostReassign_Update(p)

SpecStatusRace == InitStatusRace /\ [][NextStatusRace]_vars

\* C20: a status is written only by an advanceStatus call of the guide the
\* request names at the moment of the write; a call whose request has been
\* reassigned to another guide since its ownership check reports not found
\* and writes nothing.
C20_WriteOnlyByCurrentGuide ==
    [][/\ \A r \in RequestIds :
             requests'[r].status # requests[r].status =>
                 \E p \in Procs :
                     /\ Acting(p)
                     /\ call[p].op = "update_status"
                     /\ call[p].id = r
                     /\ call[p].user = requests[r].tour_guide_id
       /\ \A p \in Procs :
             (/\ pc[p] = "st_update" /\ Acting(p)
              /\ requests[call[p].id].tour_guide_id # call[p].user)
                 => /\ requests' = requests
                    /\ res'[p] = [code |-> 404, err |-> "request_not_found", names |-> "none"]]_vars

\* a status call passed its ownership check and then found the request gone
\* to another guide
C20_Witness ==
    \E p \in Procs :
        /\ pc[p] = "done"
        /\ call[p].op = "update_status"
        /\ call[p].id \in RequestIds
        /\ res[p] = [code |-> 404, err |-> "request_not_found", names |-> "none"]

(***************************************************************************)
(* Guide eligibility.                                                      *)
(***************************************************************************)
\* p starts an assign or a reassign of request rid to g in this step
GuideCall(p, rid, g) == PostAssign_Guide(p, rid, g) \/ PostReassign_Guide(p, rid, g)

\* C21: an assign or reassign naming a user who does not exist, is no tour
\* guide or is inactive when the call looks the guide up is rejected with the
\* requests unchanged, and every tour_guide_id a call writes is a tour guide.
C21_OnlyEligibleGuides ==
    [][/\ \A p \in Procs, rid \in RequestInputIds, g \in GuideInputs :
             (GuideCall(p, rid, g) /\ (g \notin Guides \/ ~active[g]))
                 => /\ pc'[p] = "done"
                    /\ res'[p].code = 400
                    /\ requests' = requests
       /\ \A r \in RequestIds :
             requests'[r].tour_guide_id # requests[r].tour_guide_id
                 => requests'[r].tour_guide_id \in Guides]_vars

\* an assign or reassign to a deactivated guide has been refused
C21_Witness ==
    \E p \in Procs :
        /\ pc[p] = "done"
        /\ call[p].op \in {"assign_request", "reassign_request"}
        /\ call[p].id \in RequestIds
        /\ res[p] = [code |-> 400, err |-> "guide_not_active", names |-> "none"]

(***************************************************************************)
(* SpecLedgerReq: the request operations of one customer, one call at a    *)
(* time, with a ledger that takes records and may stop and resume taking   *)
(* them at any moment.                                                     *)
(***************************************************************************)
InitLedger ==
    /\ tour_packages = << >>
    /\ tour_bookings = << >>
    /\ requests = << >>
    /\ active = [g \in Guides |-> TRUE]
    /\ activity_logs = << >>
    /\ ledger_up = TRUE
    /\ catalog = Installed
    /\ pc = [p \in Procs |-> "idle"]
    /\ call = [p \in Procs |-> NoCall]
    /\ res = [p \in Procs |-> NoRes]

\* the model's activity_logs table holds at most MaxLogs rows
LedgerRoom == Len(activity_logs) < MaxLogs

\* the ledger stops or resumes accepting inserts
LedgerFlip ==
    /\ Quiet
    /\ ledger_up' = ~ledger_up
    /\ UNCHANGED <<dbBook, dbReq, activity_logs, catalog, pc, call, res>>

LedgerReqStart(p) ==
    \/ PostUserRequests(p, "u1", "valid")
    \/ \E rid \in RequestInputIds, g \in Guides : PostAssign_Guide(p, rid, g)
    \/ \E rid \in RequestInputIds, g \in Guides : PostReassign_Guide(p, rid, g)
    \/ \E g \in Guides, rid \in RequestInputIds, st \in ALLOWED_STATUSES : PostStatus_Check(p, g, rid, st)
    \/ \E rid \in RequestInputIds : PatchCancel_Check(p, "u1", rid)

NextLedgerReq ==
    \/ \E p \in SeqProcs : LedgerRoom /\ LedgerReqStart(p)
    \/ \E p \in SeqProcs : LoadStep(p)
    \/ \E p \in SeqProcs : Return(p)
    \/ LedgerFlip

SpecLedgerReq == InitLedger /\ [][NextLedgerReq]_vars

\* C22: when the insert into the ledger fails during create, assign,
\* reassign, advanceStatus or cancel of a request, the call still answers
\* success and what it wrote to the requests stays written.
C22_LogFailureSwallowed ==
    [][\A p \in Procs :
          (~ledger_up /\ Finishes(p) /\ requests' # requests)
              => /\ res'[p].code \in {200, 201}
                 /\ res'[p].err = "none"
                 /\ activity_logs' = activity_logs]_vars

\* a guide's status update was answered with success while the ledger took
\* no record of it
C22_Witness ==
    \E p \in Procs :
        /\ pc[p] = "done"
        /\ call[p].op = "update_status"
        /\ res[p].code = 200
        /\ ~ledger_up
        /\ requests[call[p].id].status = "in_progress"
        /\ \A i \in 1 .. Len(activity_logs) : activity_logs[i].action # "update_status"

(***************************************************************************)
(* SpecBookReject: bookings are created in both flows while the            *)
(* administrator switches packages off and on, one call at a time.         *)
(***************************************************************************)
NextBookReject ==
    \/ \E st \in 1 .. MaxSeats : Quiet /\ PostPackages(st)
    \/ \E p \in SeqProcs, pid \in PackageInputIds, n \in TravelerVals : PostBookings_Check(p, "u1", pid, n)
    \/ \E p \in SeqProcs, pid \in PackageInputIds, n \in TravelerVals : PostUserBookings_Check(p, "u1", pid, n)
    \/ \E p \in SeqProcs : PostBookings_Insert(p)
    \/ \E p \in SeqProcs : PostBookings_Seats(p)
    \/ \E p \in SeqProcs : PostUserBookings_Insert(p)
    \/ \E p \in SeqProcs : PostUserBookings_Seats(p)
    \/ \E p \in SeqProcs, pid \in PackageInputIds, ac \in BOOLEAN :
          PutPackages_Check(p, pid, [NoFields EXCEPT !.active = {ac}])
    \/ \E p \in SeqProcs : PutPackages_Update(p)
    \/ \E p \in SeqProcs : Return(p)

SpecBookReject == Init /\ [][NextBookReject]_vars

\* p starts a createBooking call in this step, in either flow
CreateCall(p, pid, n) ==
    \E u \in Customers : PostBookings_Check(p, u, pid, n) \/ PostUserBookings_Check(p, u, pid, n)

\* C23: a createBooking call is rejected, with the bookings and packages left
\* as they were, when the package does not exist, is inactive, fewer than 1
\* traveller is asked for or the package has fewer seats than asked for; in
\* the last case the error names the package's seats_available.
C23_CreateBookingRejected ==
    [][\A p \in Procs, pid \in PackageInputIds, n \in TravelerVals :
          CreateCall(p, pid, n) =>
              /\ (\/ ~PkgExists(pid)
                  \/ ~tour_packages[pid].active
                  \/ n < 1
                  \/ tour_packages[pid].seats_available < n)
                    => /\ pc'[p] = "done"
                       /\ res'[p].code \in {400, 404}
                       /\ tour_bookings' = tour_bookings
                       /\ tour_packages' = tour_packages
              /\ (/\ PkgExists(pid)
                  /\ tour_packages[pid].active
                  /\ n >= 1
                  /\ tour_packages[pid].seats_available < n)
                    => /\ res'[p].err = "only_n_seats"
                       /\ res'[p].names = ToString(tour_packages'[pid].seats_available)]_vars

\* a booking was refused on a package whose seats are all taken
C23_Witness ==
    \E p \in Procs :
        /\ pc[p] = "done"
        /\ call[p].op = "create_booking"
        /\ res[p] = [code |-> 400, err |-> "only_n_seats", names |-> "0"]
        /\ PkgExists(call[p].id)
        /\ tour_packages[call[p].id].seats_available = 0

\* the call p starts in this step goes on to cancel booking bid
CancelAccepted(p, bid) ==
    \E u \in Customers :
        \/ PatchBookingsCancel_Check(p, u, bid) /\ pc'[p] = "cx_status"
        \/ PatchUserBookingsCancel_Check(p, u, bid) /\ pc'[p] = "ucx_status"

\* C24: the two cancel flows follow one policy: a cancellation accepted by
\* PATCH /user/bookings/:id/cancel is of a booking whose status
\* PATCH /bookings/:id/cancel accepts too, and neither flow accepts the
\* cancellation of a completed booking.
C24_CancelFlowsAgree ==
    [][\A p \in Procs, bid \in BookingInputIds :
          CancelAccepted(p, bid) =>
              /\ CancellableA(tour_bookings[bid].status)
              /\ tour_bookings[bid].status # "completed"]_vars

\* C25: seats_total is fixed at creation: no step changes the seats_total of
\* a package that exists before and after it.
C25_SeatsTotalFixed ==
    [][\A pid \in PkgIds :
          (PkgExists(pid) /\ tour_packages'[pid].present) =>
              tour_packages'[pid].seats_total = tour_packages[pid].seats_total]_vars

(***************************************************************************)
(* SpecPrice: one package is created at any price and repriced while one   *)
(* customer books and cancels and the administrator confirms bookings,     *)
(* one call at a time.                                                     *)
(***************************************************************************)
NextPrice ==
    \/ \E pr \in PriceVals :
          Quiet /\ tour_packages = << >> /\ InsertPackage(NthTitle(1), pr, MaxSeats, FALSE)
    \/ \E p \in SeqProcs, pid \in PackageInputIds, n \in 1 .. MaxTravelers : PostBookings_Check(p, "u1", pid, n)
    \/ \E p \in SeqProcs : PostBookings_Insert(p)
    \/ \E p \in SeqProcs : PostBookings_Seats(p)
    \/ \E p \in SeqProcs, pid \in PackageInputIds, n \in 1 .. MaxTravelers : PostUserBookings_Check(p, "u1", pid, n)
    \/ \E p \in SeqProcs : PostUserBookings_Insert(p)
    \/ \E p \in SeqProcs : PostUserBookings_Seats(p)
    \/ \E p \in SeqProcs, bid \in BookingInputIds : PatchBookingsCancel_Check(p, "u1", bid)
    \/ \E p \in SeqProcs : PatchBookingsCancel_Status(p)
    \/ \E p \in SeqProcs : PatchBookingsCancel_Seats(p)
    \/ \E p \in SeqProcs, bid \in BookingInputIds : PatchBookingsStatus(p, bid, "confirmed")
    \/ \E p \in SeqProcs, pid \in PackageInputIds, pr \in PriceVals :
          PutPackages_Check(p, pid, [NoFields EXCEPT !.price = {pr}])
    \/ \E p \in SeqProcs : PutPackages_Update(p)
    \/ \E p \in SeqProcs : Return(p)

SpecPrice == Init /\ [][NextPrice]_vars

\* C26: a booking is inserted with total_price = the package's price times
\* num_travelers, and no later step (a package price update, a booking
\* status update, a cancellation) changes the total_price of a booking.
C26_TotalPriceFrozen ==
    [][/\ \A bid \in BookingIds :
            (tour_bookings[bid].present /\ tour_bookings'[bid].present) =>
                tour_bookings'[bid].total_price = tour_bookings[bid].total_price
       /\ \A bid \in 1 .. Len(tour_bookings') :
            bid \notin BookingIds =>
                tour_bookings'[bid].total_price =
                    tour_packages[tour_bookings'[bid].package_id].price
                        * tour_bookings'[bid].num_travelers]_vars

\* a cancelled booking keeps the total of the price it was made at after the
\* package was repriced
C26_Witness ==
    \E bid \in BookingIds :
        /\ BookingExists(bid)
        /\ tour_bookings[bid].status = "cancelled"
        /\ PkgExists(tour_bookings[bid].package_id)
        /\ tour_bookings[bid].total_price = tour_bookings[bid].num_travelers
        /\ tour_packages[tour_bookings[bid].package_id].price = 2

(***************************************************************************)
(* SpecPkgFields: the administrator creates packages and updates them      *)
(* with every combination of title, price, featured and active supplied    *)
(* or left out, one call at a time.                                        *)
(***************************************************************************)
NextPkgFields ==
    \/ \E t \in SampleTitles, pr \in PriceVals, f \in BOOLEAN :
          Quiet /\ InsertPackage(t, pr, MaxSeats, f)
    \/ \E p \in SeqProcs, pid \in PackageInputIds, t \in Supplied(SampleTitles),
          pr \in Supplied(PriceVals), f \in Supplied(BOOLEAN), ac \in Supplied(BOOLEAN) :
          PutPackages_Check(p, pid, [NoFields EXCEPT !.title = t, !.price = pr,
                                                     !.featured = f, !.active = ac])
    \/ \E p \in SeqProcs : PutPackages_Update(p)
    \/ \E p \in SeqProcs : Return(p)

SpecPkgFields == Init /\ [][NextPkgFields]_vars

\* the field of the updated row holds the supplied value, or its previous
\* value when the body leaves the field out
FieldFollowsBody(old, new, field) == IF field = {} THEN new = old ELSE new \in field

LedgerBookStart(p) ==
    \/ \E pid \in PackageInputIds, n \in 1 .. MaxTravelers : PostBookings_Check(p, "u1", pid, n)
    \/ \E pid \in PackageInputIds, n \in 1 .. MaxTravelers : PostUserBookings_Check(p, "u1", pid, n)
    \/ \E bid \in BookingInputIds : PatchBookingsCancel_Check(p, "u1", bid)
    \/ \E bid \in BookingInputIds : PatchUserBookingsCancel_Check(p, "u1", bid)
    \/ \E bid \in BookingInputIds, st \in BOOKING_STATUSES : PatchBookingsStatus(p, bid, st)
    \/ \E pid \in PackageInputIds, ac \in BOOLEAN :
          PutPackages_Check(p, pid, [NoFields EXCEPT !.active = {ac}])
    \/ \E pid \in PackageInputIds : DeletePackages_Check(p, pid)
    \/ \E pid \in PackageInputIds : PatchToggleFeatured_Check(p, pid)

LedgerBookStep(p) ==
    \/ BookingStep(p)
    \/ AdminStep(p)
    \/ PatchToggleFeatured_Update(p)

NextLedgerBook ==
    \/ \E st \in 1 .. MaxSeats : Quiet /\ LedgerRoom /\ PostPackages(st)
    \/ \E p \in SeqProcs : LedgerRoom /\ LedgerBookStart(p)
    \/ \E p \in SeqProcs : LedgerBookStep(p)
    \/ \E p \in SeqProcs : Return(p)

SpecLedgerBook == InitLedger /\ [][NextLedgerBook]_vars

\* C28: with the ledger accepting inserts, every booking or package
\* operation that answers success and has changed a table leaves one more
\* record in the ledger.
C28_EveryChangeLogged ==
    [][\A p \in Procs :
          (/\ ledger_up
           /\ Finishes(p)
           /\ res'[p].code \in {200, 201}
           /\ dbBook' # dbBook)
              => Len(activity_logs') = Len(activity_logs) + 1]_vars

(***************************************************************************)
(* SpecLedger: the operations that write to the ledger, on requests,       *)
(* bookings and packages, one call at a time with the ledger accepting     *)
(* every insert.  The tables start as calls made while the ledger was      *)
(* unavailable left them.                                                  *)
(***************************************************************************)
SeedPackage(seats_available) ==
    [present |-> TRUE, active |-> TRUE,
     seats_available |-> seats_available, seats_total |-> MaxSeats,
     title |-> NthTitle(1), slug |-> generateSlug(NthTitle(1)), price |-> DefaultPrice,
     featured |-> FALSE]

\* no package, a package, a package with one pending booking of one traveller
SeedBookTables ==
    { << << >>, << >> >>,
      << <<SeedPackage(MaxSeats)>>, << >> >>,
      << <<SeedPackage(MaxSeats - 1)>>, <<NewBooking(1, "u1", 1, TotalPrice(DefaultPrice, 1))>> >> }

\* no request, a pending request, a request held by g1
SeedRequestTables ==
    { << >>,
      <<[user_id |-> "u1", status |-> "pending", tour_guide_id |-> Null]>>,
      <<[user_id |-> "u1", status |-> "assigned", tour_guide_id |-> "g1"]>>,
      <<[user_id |-> "u1", status |-> "in_progress", tour_guide_id |-> "g1"]>> }

InitLedgerSeeded ==
    /\ \E seed \in SeedBookTables : tour_packages = seed[1] /\ tour_bookings = seed[2]
    /\ requests \in SeedRequestTables
    /\ active = [g \in Guides |-> TRUE]
    /\ activity_logs = << >>
    /\ ledger_up = TRUE
    /\ catalog = Installed
    /\ pc = [p \in Procs |-> "idle"]
    /\ call = [p \in Procs |-> NoCall]
    /\ res = [p \in Procs |-> NoRes]

LedgerStart(p) ==
    \/ \E pid \in PackageInputIds, n \in 1 .. MaxTravelers : PostBookings_Check(p, "u1", pid, n)
    \/ \E bid \in BookingInputIds : PatchBookingsCancel_Check(p, "u1", bid)
    \/ \E bid \in BookingInputIds, st \in BOOKING_STATUSES : PatchBookingsStatus(p, bid, st)
    \/ \E pid \in PackageInputIds, ac \in BOOLEAN :
          PutPackages_Check(p, pid, [NoFields EXCEPT !.active = {ac}])
    \/ \E pid \in PackageInputIds : DeletePackages_Check(p, pid)
    \/ LedgerReqStart(p)

LedgerStep(p) ==
    \/ PostBookings_Insert(p)
    \/ PostBookings_Seats(p)
    \/ PatchBookingsCancel_Status(p)
    \/ PatchBookingsCancel_Seats(p)
    \/ AdminStep(p)
    \/ LoadStep(p)

NextLedger ==
    \/ \E st \in 1 .. MaxSeats : Quiet /\ LedgerRoom /\ PostPackages(st)
    \/ \E p \in SeqProcs : LedgerRoom /\ LedgerStart(p)
    \/ \E p \in SeqProcs : LedgerStep(p)
    \/ \E p \in SeqProcs : Return(p)

SpecLedger == InitLedgerSeeded /\ [][NextLedger]_vars

\* C29: the ledger is append-only: across every step of a request, booking
\* or package operation the records already in activity_logs stay where
\* they are with the fields they have, and the ledger does not shrink.
C29_LedgerAppendOnly ==
    [][/\ Len(activity_logs') >= Len(activity_logs)
       /\ \A i \in 1 .. Len(activity_logs) : activity_logs'[i] = activity_logs[i]]_vars

\* the record of a booking or package operation is still in place after a
\* request operation added its own
C29_Witness ==
    /\ Len(activity_logs) = 2
    /\ activity_logs[1].action \in {"create_booking", "cancel_booking", "update_booking_status",
                                    "create_package", "update_package", "delete_package"}
    /\ activity_logs[2].action \in {"create_request", "assign_request", "reassign_request",
                                    "update_status", "cancel_request"}

(***************************************************************************)
(* Pagination of the listing routes:                                       *)
(*   page  = Math.max(1, parseInt(req.query.page) || 1)                    *)
(*   limit = Math.min(50, Math.max(1, parseInt(req.query.limit) || d))     *)
(* A query parameter is {} when absent and {n} when it is the decimal      *)
(* writing of the integer n.                                               *)
(***************************************************************************)
PageQueryVals == Supplied((-1 .. 3) \cup {1000})
LimitQueryVals == Supplied((-1 .. 52) \cup {1000})

\* parseInt(q) || d: parseInt of an absent parameter is NaN, and NaN and 0
\* are falsy
ParsedOr(q, d) == IF q = {} \/ q = {0} THEN d ELSE CHOOSE v \in q : TRUE

MathMax(a, b) == IF a >= b THEN a ELSE b
MathMin(a, b) == IF a <= b THEN a ELSE b

EffectivePage(q) == MathMax(1, ParsedOr(q, 1))
EffectiveLimit(q, d) == MathMin(50, MathMax(1, ParsedOr(q, d)))

\* the listing call of p ends with page in call.n, limit in call.row and
\* offset in call.total
Listed(p, op, page, limit) ==
    /\ pc[p] = "idle"
    /\ pc' = [pc EXCEPT ![p] = "done"]
    /\ call' = [call EXCEPT ![p] = [NoCall EXCEPT !.op = op, !.n = page, !.row = limit,
                                                  !.total = (page - 1) * limit]]
    /\ res' = [res EXCEPT ![p] = [code |-> 200, err |-> "none", names |-> "none"]]
    /\ UNCHANGED <<dbBook, dbReq, dbLog>>

\* GET /tour-guide/requests
GetTourGuideRequests(p, pageQ, limitQ) ==
    Listed(p, "list_guide_requests", EffectivePage(pageQ), EffectiveLimit(limitQ, 10))

\* GET /admin/requests
GetAdminRequests(p, pageQ, limitQ) ==
    Listed(p, "list_admin_requests", EffectivePage(pageQ), EffectiveLimit(limitQ, 20))

NextPaging ==
    \/ \E p \in SeqProcs, pageQ \in PageQueryVals, limitQ \in LimitQueryVals :
          GetTourGuideRequests(p, pageQ, limitQ)
    \/ \E p \in SeqProcs, pageQ \in PageQueryVals, limitQ \in LimitQueryVals :
          GetAdminRequests(p, pageQ, limitQ)
    \/ \E p \in SeqProcs : Return(p)

SpecPaging == Init /\ [][NextPaging]_vars

\* p lists requests in this step, as a guide or as the administrator
ListCall(p, pageQ, limitQ) ==
    GetTourGuideRequests(p, pageQ, limitQ) \/ GetAdminRequests(p, pageQ, limitQ)

\* C30: for every integer page and limit a listing uses a page of at least
\* 1 and a limit from 1 to 50; a limit of 1000 becomes 50, a page of 0
\* becomes 1 and an absent limit becomes 10.
C30_PaginationClamped ==
    [][\A p \in Procs, pageQ \in PageQueryVals, limitQ \in LimitQueryVals :
          ListCall(p, pageQ, limitQ) =>
              /\ call'[p].n >= 1
              /\ call'[p].row \in 1 .. 50
              /\ limitQ = {1000} => call'[p].row = 50
              /\ pageQ = {0} => call'[p].n = 1
              /\ limitQ = {} => call'[p].row = 10]_vars

(***************************************************************************)
(* SpecSlug: one package is created under every title of up to             *)
(* MaxTitleLen characters, and then renamed to its own slug.               *)
(***************************************************************************)
AllTitles == UNION {[1 .. k -> Alphabet] : k \in 1 .. MaxTitleLen}

NextSlug ==
    \/ \E t \in AllTitles : tour_packages = << >> /\ InsertPackage(t, DefaultPrice, MaxSeats, FALSE)
    \/ \E p \in SeqProcs, pid \in PkgIds :
          PutPackages_Check(p, pid, [NoFields EXCEPT !.title = {tour_packages[pid].slug}])
    \/ \E p \in SeqProcs : PutPackages_Update(p)
    \/ \E p \in SeqProcs : Return(p)

SpecSlug == Init /\ [][NextSlug]_vars

\* the place in t of its k-th character of [a-z0-9]
NthKept(t, k) ==
    CHOOSE i \in DOMAIN t :
        IsSlugChar(t[i]) /\ Cardinality({j \in 1 .. i : IsSlugChar(t[j])}) = k

\* s is t with every maximal run of characters outside [a-z0-9] replaced by
\* one hyphen and without a hyphen at either end
CollapsedForm(s, t) ==
    /\ \A i \in DOMAIN s : IsSlugChar(s[i]) \/ s[i] = "-"
    /\ s # << >> => (s[1] # "-" /\ s[Len(s)] # "-")
    /\ \A i \in 1 .. (Len(s) - 1) : ~(s[i] = "-" /\ s[i + 1] = "-")
    /\ SelectSeq(s, IsSlugChar) = SelectSeq(t, IsSlugChar)
    /\ \A k \in 1 .. (Len(SelectSeq(t, IsSlugChar)) - 1) :
          (NthKept(s, k + 1) - NthKept(s, k) > 1) <=> (NthKept(t, k + 1) - NthKept(t, k) > 1)

\* C31: the slug of a package is its title in lower case with every maximal
\* run of characters outside [a-z0-9] replaced by exactly one hyphen and no
\* hyphen at the start or the end, and generateSlug of the slug is the slug.
C31_SlugShape ==
    \A pid \in PkgIds :
        PkgExists(pid) =>
            /\ CollapsedForm(tour_packages[pid].slug,
                             [i \in DOMAIN tour_packages[pid].title |-> LowerChar(tour_packages[pid].title[i])])
            /\ generateSlug(tour_packages[pid].slug) = tour_packages[pid].slug

\* a title with an upper-case letter, an inner run of two other characters
\* and a trailing one has its slug
C31_Witness ==
    /\ PkgExists(1)
    /\ tour_packages[1].title \in {<<"B", " ", "-", "1">>, <<"B", " ", "!", "1">>, <<"B", " ", "1", "!">>}
    /\ tour_packages[1].slug = <<"b", "-", "1">>

\* C32: with advanceStatus calls interleaved, every status write that
\* commits takes the request from the status it has at the moment of the
\* write to a status of that status's allowed-next set: no write moves the
\* request backwards or rewrites the status it has.
C32_WriteFollowsTransitions ==
    [][\A p \in Procs :
          (PostStatus_Update(p) /\ res'[p].code = 200) =>
              requests'[call[p].id].status \in VALID_TRANSITIONS(requests[call[p].id].status)]_vars

(***************************************************************************)
(* SpecCancelRace: on requests held by a guide, the customer's cancel and  *)
(* the guide's status calls, at most one call per process, interleaved at  *)
(* their statements.                                                       *)
(***************************************************************************)
NextCancelRace ==
    \/ \E p \in Procs, g \in Guides, rid \in RequestInputIds, st \in ALLOWED_STATUSES :
          PostStatus_Check(p, g, rid, st)
    \/ \E p \in Procs : PostStatus_Update(p)
    \/ \E p \in Procs, rid \in RequestInputIds : PatchCancel_Check(p, "u1", rid)
    \/ \E p \in Procs : PatchCancel_Update(p)

SpecCancelRace == InitStatusRace /\ [][NextCancelRace]_vars

\* C33: with the customer's cancel and the guide's advanceStatus
\* interleaved, cancel's write finds the request pending or assigned (it
\* never turns in_progress or completed into cancelled) and advanceStatus's
\* write never finds the request cancelled.
C33_TerminalNotOverwritten ==
    [][\A p \in Procs :
          /\ (PatchCancel_Update(p) /\ call[p].id \in RequestIds) =>
                 requests[call[p].id].status \in {"pending", "assigned"}
          /\ (PostStatus_Update(p) /\ res'[p].code = 200) =>
                 requests[call[p].id].status # "cancelled"]_vars

\* C34: with reassign interleaved with advanceStatus or cancel, reassign's
\* write never changes the tour_guide_id of a request that is completed or
\* cancelled at the moment of the write.
C34_ReassignSparesTerminal ==
    [][\A p \in Procs :
          (/\ PostReassign_Update(p)
           /\ call[p].id \in RequestIds
           /\ requests'[call[p].id].tour_guide_id # requests[call[p].id].tour_guide_id)
              => requests[call[p].id].status \notin {"completed", "cancelled"}]_vars

(***************************************************************************)
(* SpecStatusLedger: on requests held by a guide, status calls, cancels    *)
(* and reassigns, at most one call per process, interleaved at their       *)
(* statements, with the ledger accepting every insert.                     *)
(***************************************************************************)
InitStatusLedger ==
    /\ tour_packages = << >>
    /\ tour_bookings = << >>
    /\ requests \in OwnedTables
    /\ active = [g \in Guides |-> TRUE]
    /\ activity_logs = << >>
    /\ ledger_up = TRUE
    /\ catalog = Installed
    /\ pc = [p \in Procs |-> "idle"]
    /\ call = [p \in Procs |-> NoCall]
    /\ res = [p \in Procs |-> NoRes]

NextStatusLedger ==
    \/ NextStatusRace
    \/ \E p \in Procs, rid \in RequestInputIds : PatchCancel_Check(p, "u1", rid)
    \/ \E p \in Procs : PatchCancel_Update(p)

SpecStatusLedger == InitStatusLedger /\ [][NextStatusLedger]_vars

\* C35: every update_status record in the ledger has from_status and
\* to_status equal to assigned and in_progress or to in_progress and
\* completed, however the calls interleave.
C35_StatusRecordPairs ==
    \A i \in DOMAIN activity_logs :
        activity_logs[i].action = "update_status" =>
            <<activity_logs[i].from_status, activity_logs[i].to_status>>
                \in {<<"assigned", "in_progress">>, <<"in_progress", "completed">>}

\* two status calls that both read assigned have each left their record
C35_Witness ==
    /\ Len(activity_logs) = 2
    /\ \A i \in 1 .. 2 :
          /\ activity_logs[i].action = "update_status"
          /\ activity_logs[i].ref = 1
          /\ activity_logs[i].from_status = "assigned"
          /\ activity_logs[i].to_status = "in_progress"

(***************************************************************************)
(* GET /tour-guide/requests with its rows: one SELECT of all the guide's   *)
(* requests for the counts, one SELECT of the filtered page.               *)
(***************************************************************************)
StatusQueryVals == Supplied(REQUEST_STATUSES \cup {"unknown"})

\* if (status && ALLOWED_STATUSES.includes(status)) query += ' AND r.status = $2'
FilterApplied(statusQ) == statusQ # {} /\ statusQ \subseteq ALLOWED_STATUSES

\* the status filter as the call keeps it: "none" when no filter is applied
AppliedFilter(statusQ) == IF FilterApplied(statusQ) THEN CHOOSE st \in statusQ : TRUE ELSE "none"

\* the requests the listing pages over
MatchingRequests(g, filter) ==
    {r \in RequestIds : /\ requests[r].tour_guide_id = g
                         /\ filter # "none" => requests[r].status = filter}

\* Math.ceil(total / limit)
MathCeilDiv(total, limit) == (total + limit - 1) \div limit

\* SELECT * FROM requests WHERE tour_guide_id = $1
GetTourGuideRequests_All(p, g, statusQ, limitQ) ==
    /\ pc[p] = "idle"
    /\ pc' = [pc EXCEPT ![p] = "ls_page"]
    /\ call' = [call EXCEPT ![p] = [NoCall EXCEPT !.op = "list_guide_requests", !.user = g,
                                                  !.arg = AppliedFilter(statusQ),
                                                  !.n = EffectiveLimit(limitQ, 10),
                                                  !.row = Cardinality(MatchingRequests(g, "none"))]]
    /\ UNCHANGED <<res, dbBook, dbReq, dbLog>>

\* the filtered SELECT ... LIMIT .. OFFSET .., then the pagination block:
\* total in call.row, totalPages in call.total
GetTourGuideRequests_Page(p) ==
    /\ pc[p] = "ls_page"
    /\ pc' = [pc EXCEPT ![p] = "done"]
    /\ call' = [call EXCEPT ![p].total = MathCeilDiv(call[p].row, call[p].n)]
    /\ res' = [res EXCEPT ![p] = [code |-> 200, err |-> "none", names |-> "none"]]
    /\ UNCHANGED <<dbBook, dbReq, dbLog>>

NextListing ==
    \/ \E p \in SeqProcs, g \in Guides, statusQ \in StatusQueryVals, limitQ \in LimitQueryVals :
          GetTourGuideRequests_All(p, g, statusQ, limitQ)
    \/ \E p \in SeqProcs : GetTourGuideRequests_Page(p)
    \/ \E p \in SeqProcs : Return(p)

SpecListing == InitStatusRace /\ [][NextListing]_vars

\* C36: the pagination block of a request listing has total equal to the
\* number of requests matching the filters the listing applied (guide and
\* status) and totalPages equal to ceil(total / limit).
C36_PaginationTotals ==
    \A p \in Procs :
        (pc[p] = "done" /\ call[p].op = "list_guide_requests") =>
            /\ call[p].row = Cardinality(MatchingRequests(call[p].user, call[p].arg))
            /\ call[p].total * call[p].n >= call[p].row
            /\ (call[p].total - 1) * call[p].n < call[p].row

(***************************************************************************)
(* Scripts that change the schema inside one transaction: initializeTables *)
(* and migrateAgentToTourGuide.  Each awaits BEGIN, its statements in      *)
(* order and COMMIT; the first statement that raises takes the script to   *)
(* its catch block, which issues ROLLBACK.  call[p].n is the statement the *)
(* script is at.                                                           *)
(***************************************************************************)
ScriptStatements(op) == IF op = "migrateAgentToTourGuide" THEN MigrationStatements ELSE InitializeStatements

\* await client.query('BEGIN')
ScriptBegin(p, op) ==
    /\ pc[p] = "idle"
    /\ catalog.txn = "none"
    /\ pc' = [pc EXCEPT ![p] = "tx_stmt"]
    /\ call' = [call EXCEPT ![p] = [NoCall EXCEPT !.op = op, !.n = 1]]
    /\ catalog' = [catalog EXCEPT !.txn = "open", !.begun_db = catalog.db, !.begun_logs = activity_logs]
    /\ UNCHANGED <<dbBook, dbReq, activity_logs, ledger_up, res>>

\* await client.query(<the next statement>)
ScriptStatement(p, op) ==
    /\ pc[p] = "tx_stmt"
    /\ call[p].op = op
    /\ LET stmts == ScriptStatements(op)
           st == stmts[call[p].n]
       IN IF StmtSucceeds(catalog.db, st)
          THEN /\ catalog' = [catalog EXCEPT !.db = StmtResult(@, st)]
               /\ activity_logs' = StmtLogs(activity_logs, st)
               /\ pc' = [pc EXCEPT ![p] = IF call[p].n = Len(stmts) THEN "tx_commit" ELSE "tx_stmt"]
               /\ call' = [call EXCEPT ![p].n = IF call[p].n = Len(stmts) THEN @ ELSE @ + 1]
          ELSE /\ pc' = [pc EXCEPT ![p] = "tx_rollback"]
               /\ UNCHANGED <<catalog, activity_logs, call>>
    /\ UNCHANGED <<dbBook, dbReq, ledger_up, res>>

\* await client.query('COMMIT'); the script ends
ScriptCommit(p, op) ==
    /\ pc[p] = "tx_commit"
    /\ call[p].op = op
    /\ catalog' = [catalog EXCEPT !.txn = "committed"]
    /\ pc' = [pc EXCEPT ![p] = "done"]
    /\ UNCHANGED <<dbBook, dbReq, activity_logs, ledger_up, call, res>>

\* catch: await client.query('ROLLBACK'); the script ends
ScriptRollback(p, op) ==
    /\ pc[p] = "tx_rollback"
    /\ call[p].op = op
    /\ catalog' = [catalog EXCEPT !.txn = "rolled_back", !.db = catalog.begun_db]
    /\ activity_logs' = catalog.begun_logs
    /\ pc' = [pc EXCEPT ![p] = "done"]
    /\ UNCHANGED <<dbBook, dbReq, ledger_up, call, res>>

(***************************************************************************)
(* The migration, run once against a database of the old schema:           *)
(* users.role checked against user/agent/admin, requests.agent_id and its  *)
(* index, and any population of users and of activity records.             *)
(***************************************************************************)
RoleRows(roles, max) == UNION {[1 .. k -> roles] : k \in 0 .. max}

OldDb(user_roles) ==
    [InstalledDb EXCEPT !.columns = (@ \ {<<"requests", "tour_guide_id">>}) \cup {<<"requests", "agent_id">>},
                        !.indexes = @ \ {"idx_requests_tour_guide_id"},
                        !.role_check = {OLD_ROLES},
                        !.user_roles = user_roles]

InitMigration ==
    /\ tour_packages = << >>
    /\ tour_bookings = << >>
    /\ requests = << >>
    /\ active = [g \in Guides |-> TRUE]
    /\ \E actors \in RoleRows(OLD_ROLES, MaxLogs) :
          activity_logs = [i \in DOMAIN actors |-> LogRecord(actors[i], "login", 0, "null", "null")]
    /\ ledger_up = TRUE
    /\ \E roles \in RoleRows(OLD_ROLES, MaxUsers) :
          catalog = [db |-> OldDb(roles), txn |-> "none", begun_db |-> OldDb(roles), begun_logs |-> << >>]
    /\ pc = [p \in Procs |-> "idle"]
    /\ call = [p \in Procs |-> NoCall]
    /\ res = [p \in Procs |-> NoRes]

NextMigration ==
    \/ \E p \in SeqProcs : ScriptBegin(p, "migrateAgentToTourGuide")
    \/ \E p \in SeqProcs : ScriptStatement(p, "migrateAgentToTourGuide")
    \/ \E p \in SeqProcs : ScriptCommit(p, "migrateAgentToTourGuide")
    \/ \E p \in SeqProcs : ScriptRollback(p, "migrateAgentToTourGuide")

SpecMigration == InitMigration /\ [][NextMigration]_vars

\* the migration has ended, and it began on a database of the old schema
\* that held a user with role 'agent'
MigratedAgents(p) ==
    /\ pc[p] = "done"
    /\ call[p].op = "migrateAgentToTourGuide"
    /\ catalog.begun_db.role_check = {OLD_ROLES}
    /\ \E i \in DOMAIN catalog.begun_db.user_roles : catalog.begun_db.user_roles[i] = "agent"

\* C37: run against a database that holds users with role 'agent' under the
\* old role constraint, the migration commits and leaves every former agent
\* with role 'tour_guide', every activity record of an 'agent' relabelled to
\* 'tour_guide' and requests.agent_id renamed to tour_guide_id
C37_MigrationCommits ==
    \A p \in SeqProcs :
        MigratedAgents(p) =>
            /\ catalog.txn = "committed"
            /\ catalog.db.user_roles = Relabelled(catalog.begun_db.user_roles, "tour_guide")
            /\ \A i \in DOMAIN activity_logs : activity_logs[i].actor_role # "agent"
            /\ <<"requests", "tour_guide_id">> \in catalog.db.columns
            /\ <<"requests", "agent_id">> \notin catalog.db.columns

(***************************************************************************)
(* initializeTables, run when the server starts: against an empty          *)
(* database, or against what an earlier deployment left (some of the       *)
(* tables, the guide column of requests under either name, with or without *)
(* the indexes).                                                           *)
(***************************************************************************)
TableNames == {InitializeStatements[k].name : k \in 1 .. 6}

\* tables an earlier deployment can have left: a table is there only with
\* the tables its rows point to
LeftTables ==
    {T \in SUBSET TableNames :
        /\ "requests" \in T => "users" \in T
        /\ "payment_proofs" \in T => "requests" \in T
        /\ "activity_logs" \in T => "requests" \in T}

LeftDb(T, guide_column, indexed) ==
    LET cols == {c \in InstalledDb.columns : c[1] \in T /\ c # <<"requests", "tour_guide_id">>}
                   \cup (IF "requests" \in T THEN {<<"requests", guide_column>>} ELSE {})
        idx == {k \in 7 .. Len(InitializeStatements) :
                   /\ InitializeStatements[k].table \in T
                   /\ InitializeStatements[k].column = "tour_guide_id" => guide_column = "tour_guide_id"}
    IN [tables |-> T,
        columns |-> cols,
        indexes |-> IF indexed THEN {InitializeStatements[k].name : k \in idx} ELSE {},
        role_check |-> IF "users" \in T THEN {NEW_ROLES} ELSE {},
        user_roles |-> << >>]

StartupDbs ==
    {LeftDb(T, g, x) : T \in LeftTables, g \in {"agent_id", "tour_guide_id"}, x \in BOOLEAN}

InitStartup ==
    /\ tour_packages = << >>
    /\ tour_bookings = << >>
    /\ requests = << >>
    /\ active = [g \in Guides |-> TRUE]
    /\ activity_logs = << >>
    /\ ledger_up = TRUE
    /\ \E db \in StartupDbs :
          catalog = [db |-> db, txn |-> "none", begun_db |-> db, begun_logs |-> << >>]
    /\ pc = [p \in Procs |-> "idle"]
    /\ call = [p \in Procs |-> NoCall]
    /\ res = [p \in Procs |-> NoRes]

NextStartup ==
    \/ \E p \in SeqProcs : ScriptBegin(p, "initializeTables")
    \/ \E p \in SeqProcs : ScriptStatement(p, "initializeTables")
    \/ \E p \in SeqProcs : ScriptCommit(p, "initializeTables")
    \/ \E p \in SeqProcs : ScriptRollback(p, "initializeTables")

SpecStartup == InitStartup /\ [][NextStartup]_vars

\* initializeTables has ended, and it began on an empty database
InitializedEmpty(p) ==
    /\ pc[p] = "done"
    /\ call[p].op = "initializeTables"
    /\ catalog.begun_db = EmptyDb

\* C39: run on an empty database, initializeTables finds every foreign-key
\* target table and every indexed column in place when the statement that
\* names it runs, so its transaction commits with every table and index made
C39_InitializeCommits ==
    \A p \in SeqProcs :
        InitializedEmpty(p) =>
            /\ catalog.txn = "committed"
            /\ catalog.db.tables = TableNames
            /\ catalog.db.indexes = InstalledDb.indexes

(***************************************************************************)
(* POST /auth/login.  The handler validates the body, selects the user,    *)
(* compares the password, and then continues in the callbacks of           *)
(* req.session.regenerate and req.session.save: the last-login UPDATE, the *)
(* log insert and res.json run in an async callback, outside the handler's *)
(* try block.  call[p].user is the identifier and call[p].arg the password *)
(* of the attempt.  A handler that has ended rests at "done"; res[p] keeps *)
(* code 0 when it ended without calling res.json.                          *)
(***************************************************************************)
IdentifierInputs == {"", "u1", "nobody"}
PasswordInputs == {"", "right", "wrong"}

\* if (!identifier || !password) return res.status(400)
PostLogin(p, identifier, password) ==
    /\ pc[p] = "idle"
    /\ UNCHANGED <<dbBook, dbReq>>
    /\ IF identifier = "" \/ password = ""
       THEN Respond(p, "login", 0, 400, "missing_credentials")
       ELSE Goto(p, "lg_find", [NoCall EXCEPT !.op = "login", !.user = identifier, !.arg = password])

\* SELECT * FROM users WHERE (email = $1 OR phone = $1) AND active = true
PostLogin_Find(p) ==
    /\ pc[p] = "lg_find"
    /\ UNCHANGED <<dbBook, dbReq>>
    /\ \E fails \in BOOLEAN :
          IF fails THEN RespondKeeping(p, 500, "login_failed", "none")
          ELSE IF call[p].user \notin Customers THEN RespondKeeping(p, 401, "invalid_credentials", "none")
          ELSE Goto(p, "lg_compare", call[p])

\* bcrypt.compare(password, user.password)
PostLogin_Compare(p) ==
    /\ pc[p] = "lg_compare"
    /\ UNCHANGED <<dbBook, dbReq>>
    /\ \E fails \in BOOLEAN :
          IF fails THEN RespondKeeping(p, 500, "login_failed", "none")
          ELSE IF call[p].arg # "right" THEN RespondKeeping(p, 401, "invalid_credentials", "none")
          ELSE Goto(p, "lg_regenerate", call[p])

\* req.session.regenerate(async (regenerateErr) => ...)
PostLogin_Regenerate(p) ==
    /\ pc[p] = "lg_regenerate"
    /\ UNCHANGED <<dbBook, dbReq>>
    /\ \E regenerateErr \in BOOLEAN :
          IF regenerateErr THEN RespondKeeping(p, 500, "login_failed", "none")
          ELSE Goto(p, "lg_save", call[p])

\* req.session.save(async (saveErr) => ...)
PostLogin_Save(p) ==
    /\ pc[p] = "lg_save"
    /\ UNCHANGED <<dbBook, dbReq>>
    /\ \E saveErr \in BOOLEAN :
          IF saveErr THEN RespondKeeping(p, 500, "login_failed", "none")
          ELSE Goto(p, "lg_touch", call[p])

\* await db.query(UPDATE users SET updated_at = CURRENT_TIMESTAMP WHERE id = $1)
\* in the callback of save: a rejection ends the callback, nothing catches it
PostLogin_Touch(p) ==
    /\ pc[p] = "lg_touch"
    /\ UNCHANGED <<dbBook, dbReq>>
    /\ \E fails \in BOOLEAN :
          IF fails THEN Goto(p, "done", call[p])
          ELSE Goto(p, "lg_log", call[p])

\* await logActivity(user.id, user.role, 'login'); res.json({ success: true, ... })
PostLogin_Respond(p) ==
    /\ pc[p] = "lg_log"
    /\ UNCHANGED <<dbBook, dbReq>>
    /\ RespondKeepingLogged(p, 200, LogRecord("user", "login", 0, "null", "null"))

NextLogin ==
    \/ \E p \in Procs, identifier \in IdentifierInputs, password \in PasswordInputs :
          LedgerRoom /\ PostLogin(p, identifier, password)
    \/ \E p \in Procs : PostLogin_Find(p)
    \/ \E p \in Procs : PostLogin_Compare(p)
    \/ \E p \in Procs : PostLogin_Regenerate(p)
    \/ \E p \in Procs : PostLogin_Save(p)
    \/ \E p \in Procs : PostLogin_Touch(p)
    \/ \E p \in Procs : PostLogin_Respond(p)
    \/ \E p \in Procs : Return(p)
    \/ LedgerFlip

SpecLogin == InitLedger /\ [][NextLogin]_vars

\* C38: every login attempt that has ended has sent its response, also when
\* the session regenerate or save step failed or the last-login UPDATE
\* issued after the session was saved failed
C38_LoginAnswered ==
    \A p \in Procs : (pc[p] = "done" /\ call[p].op = "login") => res[p].code # 0

====
